---- MODULE Spec2Model ----
(***************************************************************************)
(* Model of the animation fallback chain of react-gsap-animation-library:  *)
(* the useSafeAnimation hook (GSAP -> Web Animations API -> CSS fallback), *)
(* the FadeIn component built on it, applyCssAnimation and TypingText.     *)
(*                                                                         *)
(* Durations and delays are kept in milliseconds: the code multiplies the  *)
(* seconds it is given by 1000 before it hands them to setTimeout.         *)
(***************************************************************************)
EXTENDS Integers, Sequences, FiniteSets, TLC

\* ------------------------------------------------------------------ bounds
MaxCalls == 2         \* animate() invocations per hook instance
MaxTimers == 3        \* setTimeout calls after which the settings stay as they are
MaxApps == 3          \* applyCssAnimation calls on the element
MaxTexts == 2         \* entries of TypingText's text array
MaxTextLen == 2       \* characters of one text
MaxLoop == 1          \* largest finite loop prop
MaxUpdates == 3       \* updateSettings calls on one AnimationProvider
MaxTweens == 8        \* gsap.to tweens one Marquee creates
MaxInjects == 3       \* injectCSSKeyframes calls from mount effects
MaxButtonAnims == 2   \* animations of one AnimatedButton running at once
MaxPlays == 2         \* playAnimation calls counted
MaxIntentKeys == 2    \* transform properties of one intent
MaxTransformCalls == 2 \* animate() calls on the element whose transform is followed
MaxOffset == 6        \* largest offset of MagneticElement, in units of 0.05 px
MaxCompletes == 2     \* onComplete invocations of useAnimation counted
MaxDurations == 2     \* duration values a useAnimation render may pass

\* --------------------------------------------------------------- constants
ApplyDelay == 10          \* setTimeout(..., 10) of createCSSAnimation
DefaultDurationMs == 1000 \* duration = 1 (second) default of createCSSAnimation
DefaultDelayMs == 0       \* delay = 0 default of createCSSAnimation
LoadDelay == 10           \* setTimeout(playAnimation, 10) of FadeIn's 'load' trigger
SnapBelow == 2            \* Math.abs(dx) < 0.1 of animatePosition, in units of 0.05 px
FadeInDurationMs == 800   \* FadeIn's duration prop left at its default, 0.8 s
FadeInDelayMs == 0        \* FadeIn's delay prop left at its default

Undef == 0 - 1            \* a property that is absent from the props object

Backends == {"gsap", "web", "css"}
Kinds == {"from", "to", "timeline"}
\* props.duration and props.delay (ms) as createCSSAnimation reads them
Timings == { [dur |-> Undef, del |-> Undef],
             [dur |-> 0, del |-> Undef] }

VARIABLES
  env,              \* what the page provides: [gsap, web]
  phase,            \* "rendered" (first render committed), "mounted", "unmounted"
  isGsapAvailable,          \* useState of useSafeAnimation
  isWebAnimationAvailable,  \* useState of useSafeAnimation
  activeAnimations,         \* useState of useSafeAnimation: sequence of handle ids
  handles,          \* every animation object animate() has returned
  timers,           \* pending setTimeout callbacks
  nextTimer,        \* id the next setTimeout returns
  style,            \* inline style of ref.current
  nCalls,           \* animate() invocations so far
  lastCall,         \* what the animate() invocation that has just returned did
  \* FadeIn (components/basic/FadeIn.jsx)
  trigger,          \* the trigger prop
  disableAllAnimations,     \* from useAnimationSettings()
  disableScrollAnimations,  \* from useAnimationSettings()
  animationState,   \* useState of FadeIn: [hasAnimated, isAnimating]
  observer,         \* TRUE while the effect's IntersectionObserver observes
  effectSnap,       \* what the closures of the trigger effect's render captured
  effectsPending,   \* a committed render whose trigger effect has not run yet
  userStarts,       \* invocations of the onStart prop
  userCompletes,    \* invocations of the onComplete prop
  lastPlay,         \* what the playAnimation() call that has just returned did
  \* applyCssAnimation (utils/fallbacks.js), all calls on one element
  cssAnim,          \* the call whose value element.style.animation holds, 0 for ''
  cssEnded,         \* the animation element.style.animation names has ended
  cssApps,          \* one record per applyCssAnimation call
  cssDocument,      \* typeof document !== 'undefined'
  cssKeyframes,     \* style elements with id 'react-gsap-keyframes'
  cssInjects,       \* calls of injectCSSKeyframes, counted up to MaxInjects
  \* TypingText
  ttProps,          \* props and settings of the instance
  ttPhase,          \* "rendered", "mounted", "unmounted", "crashed"
  ttShown,          \* length of textRef.current.textContent
  ttPending,        \* the gsap.delayedCall not yet run, or NoDelayed
  ttStarted,        \* typeText has been called
  ttEntered,        \* the ScrollTrigger has reported the element entering
  ttObserving,      \* a ScrollTrigger of this instance exists
  ttCompletes,      \* invocations of the onComplete prop
  \* Marquee (components/Marquee.js)
  mqPhase,          \* "rendered", "mounted", "unmounted"
  mqPauseOnHover,   \* the pauseOnHover prop of the committed render
  mqTweens,         \* status of every gsap.to tween the effect has created
  mqRef,            \* animationRef.current: index into mqTweens, 0 for null
  mqHover,          \* mouseenter/mouseleave listener pairs on the container
  mqResize,         \* 'resize' listeners of the component on window
  \* AnimationProvider (context/AnimationContext.js)
  apEnv,            \* what the page provides: [listenerApi, battery]
  apPhase,          \* "rendered", "mounted", "unmounted"
  apSettings,       \* useState of AnimationProvider: the committed settings
  apQueue,          \* updaters passed to setAnimationSettings, not yet applied
  apMatches,        \* matches of the (prefers-reduced-motion: reduce) query
  apListening,      \* handleMotionChange is registered on the query
  apBattery,        \* "none", "pending" (getBattery not resolved), "listening"
  apCalls,          \* updateSettings calls so far
  apLastWrite,      \* per field, the value of the last updateSettings call naming it
  apLastApplied,    \* the update applied last, and the settings it was applied to
  \* mapEasing (utils/fallbacks.js) and convertEase (utils/useSafeAnimation.js)
  easeName,         \* the ease a caller passes
  easeFn,           \* the function applied to it, "none" before the call
  easeResult,       \* what the call returned
  \* capability probes (utils/fallbacks.js, useSafeAnimation's mount effect)
  pbEnv,            \* what the page offers: window, require, Element, IntersectionObserver
  pbProbe,          \* the probe that has just run, "none" before the first
  pbResult,         \* the flag the probe reported, by capability
  pbRaised,         \* the capabilities whose detection code raised
  pbThrew,          \* an exception escaped the probe
  \* AnimatedButton (components/interactive/AnimatedButton.jsx) and its hook instance
  abProps,          \* effect, trigger and the provider's disableAllAnimations
  abEnv,            \* what the page offers: gsap, web
  abPhase,          \* "rendered" until the hook's mount effect has run, then "mounted"
  abFlags,          \* isGsapAvailable, isWebAnimationAvailable of the button's hook
  abIsAnimating,    \* animationState.isAnimating
  abAnims,          \* the animations animate() created that have not ended yet
  abPlays,          \* playAnimation calls that passed the guard, counted up to MaxPlays
  abLast,           \* backend of the animation the latest animate() call created, or "none"
  \* the transform string of the Web Animations and CSS backends (useSafeAnimation.js)
  tfTransform,      \* element.style.transform: its functions in order, each with the call that wrote it
  tfPending,        \* the 10 ms timers of createCSSAnimation not yet fired, oldest first
  tfKeyframe,       \* the transform of the keyframe the latest createWebAnimation built
  tfCalls,          \* animate() calls so far
  tfApplied,        \* the call whose 'to' state the timer that has just fired applied, else 0
  \* MagneticElement (components/MagneticElement.js), one axis
  mgPos,            \* gsap.getProperty(element, "x"), in units of 0.05 px
  mgTarget,         \* targetX.current
  mgFrame,          \* animationRef.current holds a requested animation frame
  mgPointer,        \* where the last mousemove was: "inside" or "outside" the radius
  \* useAnimation (utils/animations.js)
  uaTrigger,        \* the trigger option: "auto", "visible", "click", "hover", "none"
  uaPhase,          \* "rendered" until the effects of the first render have run, then "mounted"
  uaIsAnimating,    \* useState isAnimating
  uaIsComplete,     \* useState isComplete
  uaIsVisible,      \* useState isVisible
  uaObserving,      \* the IntersectionObserver of the 'visible' trigger is connected
  uaTimers,         \* the pending setTimeout calls: "auto" (50 ms), "complete"
  uaCompletes,      \* invocations of onComplete, counted up to MaxCompletes
  uaDuration        \* the duration option of the current render

hookVars == <<env, phase, isGsapAvailable, isWebAnimationAvailable,
              activeAnimations, handles, timers, nextTimer, style, nCalls,
              lastCall>>

fadeVars == <<trigger, disableAllAnimations, disableScrollAnimations,
              animationState, observer, effectSnap, effectsPending,
              userStarts, userCompletes,
              lastPlay>>

cssVars == <<cssAnim, cssEnded, cssApps, cssDocument, cssKeyframes,
            cssInjects>>

typingVars == <<ttProps, ttPhase, ttShown, ttPending, ttStarted, ttEntered,
                ttObserving, ttCompletes>>

marqueeVars == <<mqPhase, mqPauseOnHover, mqTweens, mqRef, mqHover, mqResize>>

providerVars == <<apEnv, apPhase, apSettings, apQueue, apMatches,
                  apListening, apBattery, apCalls, apLastWrite,
                  apLastApplied>>

easeVars == <<easeName, easeFn, easeResult>>

probeVars == <<pbEnv, pbProbe, pbResult, pbRaised, pbThrew>>

buttonVars == <<abProps, abEnv, abPhase, abFlags, abIsAnimating, abAnims,
               abPlays, abLast>>

transformVars == <<tfTransform, tfPending, tfKeyframe, tfCalls, tfApplied>>

magneticVars == <<mgPos, mgTarget, mgFrame, mgPointer>>

useAnimationVars == <<uaTrigger, uaPhase, uaIsAnimating, uaIsComplete,
                      uaIsVisible, uaObserving, uaTimers, uaCompletes,
                      uaDuration>>

vars == <<hookVars, fadeVars, cssVars, typingVars, marqueeVars, providerVars,
          easeVars, probeVars, buttonVars, transformVars, magneticVars,
          useAnimationVars>>

\* A step of one component leaves the others' state alone.
ElsewhereIdle == UNCHANGED <<cssVars, typingVars, marqueeVars, providerVars,
                             easeVars, probeVars, buttonVars, transformVars,
                             magneticVars, useAnimationVars>>

CssAlone == UNCHANGED <<hookVars, fadeVars, typingVars, marqueeVars,
                        providerVars, easeVars, probeVars, buttonVars,
                        transformVars, magneticVars, useAnimationVars>>

TypingAlone == UNCHANGED <<hookVars, fadeVars, cssVars, marqueeVars,
                           providerVars, easeVars, probeVars, buttonVars,
                           transformVars, magneticVars, useAnimationVars>>

MarqueeAlone == UNCHANGED <<hookVars, fadeVars, cssVars, typingVars,
                            providerVars, easeVars, probeVars, buttonVars,
                            transformVars, magneticVars, useAnimationVars>>

ProviderAlone == UNCHANGED <<hookVars, fadeVars, cssVars, typingVars,
                             marqueeVars, easeVars, probeVars, buttonVars,
                             transformVars, magneticVars, useAnimationVars>>

EasingAlone == UNCHANGED <<hookVars, fadeVars, cssVars, typingVars,
                           marqueeVars, providerVars, probeVars, buttonVars,
                           transformVars, magneticVars, useAnimationVars>>

ProbeAlone == UNCHANGED <<hookVars, fadeVars, cssVars, typingVars,
                          marqueeVars, providerVars, easeVars, buttonVars,
                          transformVars, magneticVars, useAnimationVars>>

ButtonAlone == UNCHANGED <<hookVars, fadeVars, cssVars, typingVars,
                           marqueeVars, providerVars, easeVars, probeVars,
                           transformVars, magneticVars, useAnimationVars>>

TransformAlone == UNCHANGED <<hookVars, fadeVars, cssVars, typingVars,
                              marqueeVars, providerVars, easeVars, probeVars,
                              buttonVars, magneticVars, useAnimationVars>>

MagneticAlone == UNCHANGED <<hookVars, fadeVars, cssVars, typingVars,
                             marqueeVars, providerVars, easeVars, probeVars,
                             buttonVars, transformVars, useAnimationVars>>

UseAnimationAlone == UNCHANGED <<hookVars, fadeVars, cssVars, typingVars,
                                 marqueeVars, providerVars, easeVars,
                                 probeVars, buttonVars, transformVars,
                                 magneticVars>>

\* ------------------------------------------------------------ useSafeAnimation

\* No committed render is waiting for its effects.
NoRender == [set |-> FALSE,
             state |-> [hasAnimated |-> FALSE, isAnimating |-> FALSE],
             hook |-> [flagG |-> FALSE, flagW |-> FALSE, active |-> <<>>]]

\* The values a render's closures capture.  The first render sees the
\* useState initial values; the latest render sees the committed state.
FirstClosure == [flagG |-> FALSE, flagW |-> FALSE, active |-> <<>>]

LatestClosure == [flagG |-> isGsapAvailable, flagW |-> isWebAnimationAvailable,
                  active |-> activeAnimations]

\* Mount-time probes: each detection runs inside try/catch, and a detection
\* that throws reports the capability as unavailable.
ProbeGsap(present, throws) == IF throws THEN FALSE ELSE present
ProbeWeb(present, throws) == IF throws THEN FALSE ELSE present

\* createGSAPAnimation: res is what the helper returns ("anim", "null") or
\* "throw" when an exception escapes it; called tells whether a gsap
\* constructor (gsap.from / gsap.to / gsap.timeline) was invoked.
createGSAPAnimation_NoCatch(flagG, refOk, kind, throws) ==
  IF ~flagG \/ ~refOk THEN [res |-> "null", called |-> FALSE]
  ELSE IF kind \notin {"from", "to", "timeline"} THEN [res |-> "null", called |-> FALSE]
  ELSE IF throws THEN [res |-> "throw", called |-> TRUE]
  ELSE [res |-> "anim", called |-> TRUE]

createGSAPAnimation(flagG, refOk, kind, throws) ==
  IF ~flagG \/ ~refOk THEN [res |-> "null", called |-> FALSE]
  ELSE IF kind \notin {"from", "to", "timeline"} THEN [res |-> "null", called |-> FALSE]
  ELSE IF throws THEN [res |-> "null", called |-> TRUE]
  ELSE [res |-> "anim", called |-> TRUE]

\* createWebAnimation: element.animate is reached for from/to props only.
createWebAnimation(flagW, refOk, kind, throws) ==
  IF ~flagW \/ ~refOk THEN [res |-> "null", called |-> FALSE]
  ELSE IF kind \notin {"from", "to"} THEN [res |-> "null", called |-> FALSE]
  ELSE IF throws THEN [res |-> "null", called |-> TRUE]
  ELSE [res |-> "anim", called |-> TRUE]

\* createCSSAnimation: needs only ref.current; the body is inside try/catch.
createCSSAnimation(refOk, throws) ==
  IF ~refOk THEN [res |-> "null", called |-> FALSE]
  ELSE IF throws THEN [res |-> "null", called |-> TRUE]
  ELSE [res |-> "anim", called |-> TRUE]

\* animate: the fallback chain.  An exception escaping a helper escapes
\* animate too (animate itself has no try/catch).  tried: the helpers
\* invoked; called: the backend constructors reached; nulls: the helpers
\* that returned null.
Only(b, cond) == IF cond THEN {b} ELSE {}

animate_WebFirst(flagG, flagW, refOk, kind, gT, wT, cT) ==
  LET g == createGSAPAnimation(flagG, refOk, kind, gT)
      w == createWebAnimation(flagW, refOk, kind, wT)
      c == createCSSAnimation(refOk, cT)
  IN  IF flagW /\ w.res # "null"
      THEN [res |-> w.res, backend |-> IF w.res = "anim" THEN "web" ELSE "none",
            tried |-> {"web"}, called |-> Only("web", w.called), nulls |-> {}]
      ELSE IF flagG /\ g.res # "null"
      THEN [res |-> g.res, backend |-> IF g.res = "anim" THEN "gsap" ELSE "none",
            tried |-> Only("web", flagW) \cup {"gsap"},
            called |-> Only("web", flagW /\ w.called) \cup Only("gsap", g.called),
            nulls |-> Only("web", flagW)]
      ELSE [res |-> c.res, backend |-> IF c.res = "anim" THEN "css" ELSE "none",
            tried |-> Only("gsap", flagG) \cup Only("web", flagW) \cup {"css"},
            called |-> Only("gsap", flagG /\ g.called)
                       \cup Only("web", flagW /\ w.called)
                       \cup Only("css", c.called),
            nulls |-> Only("gsap", flagG) \cup Only("web", flagW)
                      \cup Only("css", c.res = "null")]

animate(flagG, flagW, refOk, kind, gT, wT, cT) ==
  LET g == createGSAPAnimation(flagG, refOk, kind, gT)
      w == createWebAnimation(flagW, refOk, kind, wT)
      c == createCSSAnimation(refOk, cT)
  IN  IF flagG /\ g.res # "null"
      THEN [res |-> g.res, backend |-> IF g.res = "anim" THEN "gsap" ELSE "none",
            tried |-> {"gsap"}, called |-> Only("gsap", g.called), nulls |-> {}]
      ELSE IF flagW /\ w.res # "null"
      THEN [res |-> w.res, backend |-> IF w.res = "anim" THEN "web" ELSE "none",
            tried |-> Only("gsap", flagG) \cup {"web"},
            called |-> Only("gsap", flagG /\ g.called) \cup Only("web", w.called),
            nulls |-> Only("gsap", flagG)]
      ELSE [res |-> c.res, backend |-> IF c.res = "anim" THEN "css" ELSE "none",
            tried |-> Only("gsap", flagG) \cup Only("web", flagW) \cup {"css"},
            called |-> Only("gsap", flagG /\ g.called)
                       \cup Only("web", flagW /\ w.called)
                       \cup Only("css", c.called),
            nulls |-> Only("gsap", flagG) \cup Only("web", flagW)
                      \cup Only("css", c.res = "null")]

\* ------------------------------------------------------- handles and timers

NoPlay == [isCall |-> FALSE, by |-> "none", disabled |-> FALSE,
           created |-> FALSE, cbs |-> 0]

\* A step in which FadeIn does nothing.
FadeIdle ==
  /\ lastPlay' = NoPlay
  /\ UNCHANGED <<trigger, disableAllAnimations, disableScrollAnimations,
                 animationState, observer, effectSnap, effectsPending, userStarts,
                 userCompletes>>
  /\ ElsewhereIdle

\* lastCall while no animate() invocation has just returned.  cbs counts the
\* onComplete invocations animate made before returning (it has no code that
\* makes one), atFinal tells whether the element's style is the intent's
\* final state when animate returns.
NoCall == [isCall |-> FALSE, flagG |-> FALSE, flagW |-> FALSE, refOk |-> FALSE,
           res |-> "null", backend |-> "none", tried |-> {}, called |-> {},
           nulls |-> {}, threw |-> {}, h |-> 0, cbs |-> 0, atFinal |-> FALSE]

NaturalStyle == [transition |-> FALSE, val |-> "natural", of |-> 0]

HandleIds == 1..Len(handles)

Running(h) == handles[h].status = "running"

\* The style the intent of handle h asks for: a 'from' animation ends in the
\* element's natural style, a 'to' animation in its own 'to' values.
KindAtTarget(st, kind, h) ==
  CASE kind = "from" -> st.val = "natural"
    [] kind = "to" -> st.val = "to" /\ st.of = h
    [] OTHER -> TRUE

AtTarget(st, h) == KindAtTarget(st, handles[h].kind, h)

\* (duration + delay) * 1000 with the defaults of the destructuring.
CssTimeoutMs(dur, del) ==
  (IF dur = Undef THEN DefaultDurationMs ELSE dur)
  + (IF del = Undef THEN DefaultDelayMs ELSE del)

\* The two setTimeout calls of createCSSAnimation, in program order: the
\* deferred application of the target state, then the completion timer.
CssTimers(h, dur, del) ==
  { [id |-> nextTimer, kind |-> "apply", h |-> h, left |-> ApplyDelay],
    [id |-> nextTimer + 1, kind |-> "complete", h |-> h,
     left |-> CssTimeoutMs(dur, del)] }

Threw(gT, wT, cT) ==
  {b \in {"gsap"} : gT} \cup {b \in {"web"} : wT} \cup {b \in {"css"} : cT}

\* animate(props) called from a closure c while the pending timers are tms;
\* cb names the owner of the callbacks carried in props.from / props.to.
\* starts counts the invocations of the onStart belonging to the animation:
\* FadeIn's playAnimation has made one when it calls animate.
AnimateEffect(tms, c, kind, dur, del, gT, wT, cT, cb) ==
  LET refOk == phase = "mounted"
      fG == c.flagG
      fW == c.flagW
      r == animate(fG, fW, refOk, kind, gT, wT, cT)
      id == Len(handles) + 1
      made == r.res = "anim"
      css == made /\ r.backend = "css"
  IN  /\ Threw(gT, wT, cT) \subseteq r.called   \* only a constructor that runs can throw
      /\ (r.backend # "css" => dur = Undef /\ del = Undef)
      /\ nCalls' = nCalls + 1
      /\ handles' = IF made
                    THEN Append(handles,
                           [backend |-> r.backend, kind |-> kind,
                            cb |-> IF kind \in {"from", "to"} THEN cb ELSE "none",
                            status |-> "running",
                            timeout |-> IF css THEN nextTimer + 1 ELSE 0,
                            ms |-> IF css THEN CssTimeoutMs(dur, del) ELSE Undef,
                            done |-> 0, styleOk |-> TRUE,
                            starts |-> IF cb = "fadein" THEN 1 ELSE 0])
                    ELSE handles
      /\ activeAnimations' = IF made /\ phase = "mounted"
                             THEN Append(c.active, id)
                             ELSE activeAnimations
      /\ timers' = IF css THEN tms \cup CssTimers(id, dur, del) ELSE tms
      /\ nextTimer' = IF css THEN nextTimer + 2 ELSE nextTimer
      /\ style' = IF css
                  THEN [transition |-> TRUE,
                        val |-> IF kind = "from" THEN "from" ELSE style.val,
                        of |-> IF kind = "from" THEN id ELSE style.of]
                  ELSE style
      /\ lastCall' = [isCall |-> TRUE, flagG |-> fG, flagW |-> fW, refOk |-> refOk,
                      res |-> r.res, backend |-> r.backend, tried |-> r.tried,
                      called |-> r.called, nulls |-> r.nulls,
                      threw |-> Threw(gT, wT, cT),
                      h |-> IF made THEN id ELSE 0, cbs |-> 0,
                      atFinal |-> KindAtTarget(style', kind, id)]

\* kill() of the CSS handle, kill() of a GSAP tween, cancel() of a Web
\* Animation: what killAll calls on each element of the list.  The CSS
\* handle clears its completion timer and the inline transition.
KilledHandles(ids) ==
  [h \in HandleIds |->
     IF h \in ids /\ Running(h)
     THEN [handles[h] EXCEPT !.status = "killed"]
     ELSE handles[h]]

KilledTimers(ids, tms) ==
  {t \in tms :
     ~\E h \in ids : handles[h].backend = "css" /\ t.id = handles[h].timeout}

KilledStyle(ids) ==
  IF \E h \in ids : handles[h].backend = "css"
  THEN [style EXCEPT !.transition = FALSE]
  ELSE style

KillSet(ids) ==
  /\ handles' = KilledHandles(ids)
  /\ timers' = KilledTimers(ids, timers)
  /\ style' = KilledStyle(ids)

SeqRange(s) == {s[i] : i \in 1..Len(s)}

\* killAll as a closure c sees it.
KillAllEffect(c) ==
  /\ KillSet(SeqRange(c.active))
  /\ activeAnimations' = IF phase = "mounted" THEN <<>> ELSE activeAnimations

\* ------------------------------------------------------------------ actions

\* useEffect(..., []) of useSafeAnimation: the capability probe.
MountEffect ==
  /\ phase = "rendered"
  /\ phase' = "mounted"
  /\ \E gT \in BOOLEAN, wT \in BOOLEAN :
       /\ isGsapAvailable' = ProbeGsap(env.gsap, gT)
       /\ isWebAnimationAvailable' = ProbeWeb(env.web, wT)
  /\ lastCall' = NoCall
  /\ UNCHANGED <<env, activeAnimations, handles, timers, nextTimer, style, nCalls>>
  /\ FadeIdle

Animate ==
  /\ phase # "rendered"
  /\ nCalls < MaxCalls
  /\ \E c \in {FirstClosure, LatestClosure}, kind \in Kinds, tm \in Timings,
        gT \in BOOLEAN, wT \in BOOLEAN, cT \in BOOLEAN :
       AnimateEffect(timers, c, kind, tm.dur, tm.del, gT, wT, cT, "user")
  /\ UNCHANGED <<env, phase, isGsapAvailable, isWebAnimationAvailable>>
  /\ FadeIdle

\* The caller stops one handle it holds.
KillHandle ==
  /\ \E h \in HandleIds : KillSet({h})
  /\ UNCHANGED <<env, phase, isGsapAvailable, isWebAnimationAvailable,
                 activeAnimations, nextTimer, nCalls>>
  /\ lastCall' = NoCall
  /\ FadeIdle

\* killAll of the latest render, as the hook returns it to the component.
KillAll ==
  /\ phase = "mounted"
  /\ KillAllEffect(LatestClosure)
  /\ UNCHANGED <<env, phase, isGsapAvailable, isWebAnimationAvailable,
                 nextTimer, nCalls>>
  /\ lastCall' = NoCall
  /\ FadeIdle

\* Cleanup of useEffect(() => () => killAll(), []): the killAll of the first
\* render.
Unmount ==
  /\ phase = "mounted"
  /\ phase' = "unmounted"
  /\ KillAllEffect(FirstClosure)
  /\ UNCHANGED <<env, isGsapAvailable, isWebAnimationAvailable,
                 nextTimer, nCalls>>
  /\ lastCall' = NoCall
  /\ FadeIdle

DueTimers == {t \in timers : t.left = 0}

\* What the onComplete carried by handle h does when invoked is TRUE: the
\* wrapper FadeIn builds in getAnimationProps sets the animation state and
\* calls the onComplete prop.  (React drops a state update of an unmounted
\* component.)
CallbackEffects(h, invoked) ==
  /\ animationState' = IF invoked /\ handles[h].cb = "fadein" /\ phase = "mounted"
                       THEN [hasAnimated |-> TRUE, isAnimating |-> FALSE]
                       ELSE animationState
  /\ userCompletes' = IF invoked /\ handles[h].cb = "fadein"
                      THEN userCompletes + 1
                      ELSE userCompletes
  /\ lastPlay' = NoPlay
  /\ UNCHANGED <<trigger, disableAllAnimations, disableScrollAnimations,
                 observer, effectSnap, effectsPending, userStarts>>
  /\ ElsewhereIdle

\* The intent's onComplete is invoked for handle h.
Completed(hs, st, h) ==
  [hs EXCEPT ![h].done = IF hs[h].cb = "none" THEN @ ELSE @ + 1,
             ![h].styleOk = AtTarget(st, h),
             ![h].status = IF @ = "running" THEN "finished" ELSE @]

\* A setTimeout callback of createCSSAnimation runs: due timers run in the
\* order they were set.
FireTimer ==
  /\ \E t \in DueTimers :
       /\ \A u \in DueTimers : t.id <= u.id
       /\ t.kind \in {"apply", "complete"}
       /\ timers' = timers \ {t}
       /\ IF t.kind = "apply"
          THEN /\ style' = CASE handles[t.h].kind = "to" ->
                                  [style EXCEPT !.val = "to", !.of = t.h]
                             [] handles[t.h].kind = "from" ->
                                  [style EXCEPT !.val = "natural", !.of = 0]
                             [] OTHER -> style
               /\ handles' = handles
          ELSE /\ handles' = Completed(handles, style, t.h)
               /\ style' = style
       /\ CallbackEffects(t.h, t.kind = "complete")
  /\ UNCHANGED <<env, phase, isGsapAvailable, isWebAnimationAvailable,
                 activeAnimations, nextTimer, nCalls>>
  /\ lastCall' = NoCall

MinLeft == CHOOSE m \in {t.left : t \in timers} : \A t \in timers : m <= t.left

\* Time passes until the next timer is due.  (A committed render's effects
\* run before any measurable time has passed.)
Advance ==
  /\ timers # {}
  /\ DueTimers = {}
  /\ ~effectsPending.set
  /\ timers' = {[t EXCEPT !.left = @ - MinLeft] : t \in timers}
  /\ UNCHANGED <<env, phase, isGsapAvailable, isWebAnimationAvailable,
                 activeAnimations, handles, nextTimer, style, nCalls>>
  /\ lastCall' = NoCall
  /\ FadeIdle

\* A GSAP tween or a Web Animation reaches its end.  GSAP invokes the
\* onComplete of the vars it was given; the Animation object returned by
\* element.animate has no finish handler attached.
BackendFinish ==
  /\ \E h \in HandleIds :
       /\ handles[h].backend \in {"gsap", "web"}
       /\ Running(h)
       /\ (handles[h].backend = "gsap" /\ handles[h].cb = "fadein") =>
            handles[h].starts > 1
       /\ LET st == CASE handles[h].kind = "to" -> [style EXCEPT !.val = "to", !.of = h]
                      [] handles[h].kind = "from" -> [style EXCEPT !.val = "natural", !.of = 0]
                      [] OTHER -> style
          IN  /\ style' = st
              /\ handles' = IF handles[h].backend = "gsap"
                            THEN Completed(handles, st, h)
                            ELSE [handles EXCEPT ![h].status = "finished"]
       /\ CallbackEffects(h, handles[h].backend = "gsap")
  /\ UNCHANGED <<env, phase, isGsapAvailable, isWebAnimationAvailable,
                 activeAnimations, timers, nextTimer, nCalls>>
  /\ lastCall' = NoCall

InitHook ==
  /\ env \in [gsap : BOOLEAN, web : BOOLEAN]
  /\ phase = "rendered"
  /\ isGsapAvailable = FALSE
  /\ isWebAnimationAvailable = FALSE
  /\ activeAnimations = <<>>
  /\ handles = <<>>
  /\ timers = {}
  /\ nextTimer = 1
  /\ style = NaturalStyle
  /\ nCalls = 0
  /\ lastCall = NoCall

\* The hook used on its own: no FadeIn around it.
NoFadeIn ==
  /\ trigger = "none"
  /\ disableAllAnimations = FALSE
  /\ disableScrollAnimations = FALSE
  /\ animationState = [hasAnimated |-> FALSE, isAnimating |-> FALSE]
  /\ observer = FALSE
  /\ effectSnap = [state |-> animationState, hook |-> FirstClosure]
  /\ effectsPending = NoRender
  /\ userStarts = 0
  /\ userCompletes = 0
  /\ lastPlay = NoPlay

\* No applyCssAnimation call, no TypingText.
NoCss ==
  /\ cssAnim = 0
  /\ cssEnded = FALSE
  /\ cssApps = <<>>
  /\ cssDocument = TRUE
  /\ cssKeyframes = 0
  /\ cssInjects = 0

NoDelayed == [index |-> 0, charIndex |-> 0, isDeleting |-> FALSE,
              set |-> FALSE, tracked |-> FALSE]

NoTyping ==
  /\ ttProps = [trigger |-> "none", texts |-> <<0>>,
                loop |-> [inf |-> FALSE, n |-> 0], disableAll |-> FALSE,
                disableScroll |-> FALSE, scrollTriggerDefined |-> FALSE]
  /\ ttPhase = "rendered"
  /\ ttShown = 0
  /\ ttPending = NoDelayed
  /\ ttStarted = FALSE
  /\ ttEntered = FALSE
  /\ ttObserving = FALSE
  /\ ttCompletes = 0

\* The fields of the settings object that the provider itself writes.
Fields == {"disableAllAnimations", "disableScrollAnimations", "animationQuality"}

defaultAnimationSettings ==
  [disableAllAnimations |-> FALSE, disableScrollAnimations |-> FALSE,
   animationQuality |-> "high"]

NoUpdate == [src |-> "none", patch |-> <<>>, before |-> defaultAnimationSettings]

NoProvider ==
  /\ apEnv = [listenerApi |-> "none", battery |-> FALSE]
  /\ apPhase = "rendered"
  /\ apSettings = defaultAnimationSettings
  /\ apQueue = <<>>
  /\ apMatches = FALSE
  /\ apListening = FALSE
  /\ apBattery = "none"
  /\ apCalls = 0
  /\ apLastWrite = defaultAnimationSettings
  /\ apLastApplied = NoUpdate

NoMarquee ==
  /\ mqPhase = "rendered"
  /\ mqPauseOnHover = FALSE
  /\ mqTweens = <<>>
  /\ mqRef = 0
  /\ mqHover = 0
  /\ mqResize = 0

NoEasing ==
  /\ easeName = "power2.out"
  /\ easeFn = "none"
  /\ easeResult = "undefined"

NoProbe ==
  /\ pbEnv = [window |-> TRUE, windowGsap |-> FALSE, windowST |-> FALSE,
              require |-> FALSE, gsapModule |-> FALSE, stModule |-> FALSE,
              stPlugin |-> FALSE, element |-> "animate", io |-> TRUE]
  /\ pbProbe = "none"
  /\ pbResult = [c \in {"none"} |-> FALSE]
  /\ pbRaised = {}
  /\ pbThrew = FALSE

NoButton ==
  /\ abProps = [effect |-> "ripple", trigger |-> "hover", disabled |-> FALSE]
  /\ abEnv = [gsap |-> FALSE, web |-> FALSE]
  /\ abPhase = "rendered"
  /\ abFlags = [gsap |-> FALSE, web |-> FALSE]
  /\ abIsAnimating = FALSE
  /\ abAnims = <<>>
  /\ abPlays = 0
  /\ abLast = "none"

NoTransform ==
  /\ tfTransform = <<>>
  /\ tfPending = <<>>
  /\ tfKeyframe = <<>>
  /\ tfCalls = 0
  /\ tfApplied = 0

NoMagnetic ==
  /\ mgPos = 0
  /\ mgTarget = 0
  /\ mgFrame = FALSE
  /\ mgPointer = "outside"

NoUseAnimation ==
  /\ uaTrigger = "none"
  /\ uaPhase = "rendered"
  /\ uaIsAnimating = FALSE
  /\ uaIsComplete = FALSE
  /\ uaIsVisible = FALSE
  /\ uaObserving = FALSE
  /\ uaTimers = {}
  /\ uaCompletes = 0
  /\ uaDuration = 1

Next ==
  \/ MountEffect
  \/ Animate
  \/ KillHandle
  \/ KillAll
  \/ Unmount
  \/ FireTimer
  \/ Advance
  \/ BackendFinish

Init == InitHook /\ NoFadeIn /\ NoCss /\ NoTyping /\ NoMarquee /\ NoProvider /\ NoEasing /\ NoProbe /\ NoButton /\ NoTransform /\ NoMagnetic /\ NoUseAnimation

Spec == Init /\ [][Next]_vars

\* The calls alone: which backend each animate() invocation resolves to.
NextResolve ==
  \/ MountEffect
  \/ Animate
  \/ KillAll
  \/ Unmount

SpecResolve == Init /\ [][NextResolve]_vars


\* ---------------------------------------------------------------------- FadeIn

Triggers == {"scroll", "load", "hover", "click", "none"}

\* playAnimation of a render that captured animation state st and hook
\* closure c, under the setting dAll, while the pending timers are tms; by
\* names the caller (the observer, the load timer, an event handler, the
\* render-prop child).
\* The handle animate returns is dropped.
PlayAnimation(by, tms, st, c, dAll) ==
  /\ ElsewhereIdle
  /\ IF dAll \/ st.hasAnimated \/ st.isAnimating
     THEN /\ timers' = tms
          /\ lastCall' = NoCall
          /\ UNCHANGED <<animationState, userStarts, userCompletes,
                         activeAnimations, handles, nextTimer, style, nCalls>>
          /\ lastPlay' = [isCall |-> TRUE, by |-> by, disabled |-> dAll, created |-> FALSE,
                          cbs |-> userCompletes' - userCompletes]
     ELSE /\ nCalls < MaxCalls
          /\ animationState' = [st EXCEPT !.isAnimating = TRUE]
          /\ userStarts' = userStarts + 1
          /\ UNCHANGED userCompletes
          /\ \E gT \in BOOLEAN, wT \in BOOLEAN, cT \in BOOLEAN :
               AnimateEffect(tms, c, "from", Undef, Undef, gT, wT, cT, "fadein")
          /\ lastPlay' = [isCall |-> TRUE, by |-> by, disabled |-> dAll,
                          created |-> lastCall'.res = "anim",
                          cbs |-> userCompletes' - userCompletes]

\* The trigger effect (deps: trigger, threshold, the two settings) run by a
\* render with settings dAll, dScroll: an IntersectionObserver for 'scroll',
\* setTimeout(playAnimation, 10) for 'load'.
EffectObserves(dAll, dScroll) ==
  ~dAll /\ trigger = "scroll" /\ ~dScroll

EffectTimers(dAll, tms) ==
  IF ~dAll /\ trigger = "load"
  THEN tms \cup {[id |-> nextTimer, kind |-> "load", h |-> 0, left |-> LoadDelay]}
  ELSE tms

\* The effect's cleanup: observer.disconnect(), clearTimeout(timeoutId).
EffectCleanup(tms) == {t \in tms : t.kind # "load"}

\* FadeIn mounts: the hook's probe and the trigger effect run, both with the
\* closures of the first render.
FadeInMount ==
  /\ phase = "rendered"
  /\ phase' = "mounted"
  /\ \E gT \in BOOLEAN, wT \in BOOLEAN :
       /\ isGsapAvailable' = ProbeGsap(env.gsap, gT)
       /\ isWebAnimationAvailable' = ProbeWeb(env.web, wT)
  /\ observer' = EffectObserves(disableAllAnimations, disableScrollAnimations)
  /\ timers' = EffectTimers(disableAllAnimations, timers)
  /\ nextTimer' = IF timers' # timers THEN nextTimer + 1 ELSE nextTimer
  /\ effectSnap' = [state |-> animationState, hook |-> FirstClosure]
  /\ lastCall' = NoCall
  /\ ElsewhereIdle
  /\ lastPlay' = NoPlay
  /\ UNCHANGED <<env, activeAnimations, handles, style, nCalls, trigger,
                 disableAllAnimations, disableScrollAnimations, animationState,
                 effectsPending, userStarts, userCompletes>>

\* The settings of the AnimationContext change while FadeIn is mounted: the
\* new render is committed (its event handlers are attached).  An update
\* that no user event caused has its effects run later, after the browser
\* has painted.
SettingsChange ==
  /\ phase = "mounted"
  /\ ~effectsPending.set
  /\ nextTimer <= MaxTimers
  /\ \E dAll \in BOOLEAN, dScroll \in BOOLEAN :
       /\ <<dAll, dScroll>> # <<disableAllAnimations, disableScrollAnimations>>
       /\ disableAllAnimations' = dAll
       /\ disableScrollAnimations' = dScroll
  /\ effectsPending' = [set |-> TRUE, state |-> animationState,
                        hook |-> LatestClosure]
  /\ lastCall' = NoCall
  /\ ElsewhereIdle
  /\ lastPlay' = NoPlay
  /\ UNCHANGED <<env, phase, isGsapAvailable, isWebAnimationAvailable,
                 activeAnimations, handles, timers, nextTimer, style, nCalls,
                 trigger, animationState, observer, effectSnap, userStarts,
                 userCompletes>>

\* The effects of the committed render run: the cleanup of the previous
\* trigger effect, then the trigger effect with the render's closures.
FlushEffects ==
  /\ phase = "mounted"
  /\ effectsPending.set
  /\ effectsPending' = NoRender
  /\ observer' = EffectObserves(disableAllAnimations, disableScrollAnimations)
  /\ timers' = EffectTimers(disableAllAnimations, EffectCleanup(timers))
  /\ nextTimer' = IF trigger = "load" /\ ~disableAllAnimations
                  THEN nextTimer + 1
                  ELSE nextTimer
  /\ effectSnap' = [state |-> effectsPending.state, hook |-> effectsPending.hook]
  /\ lastCall' = NoCall
  /\ ElsewhereIdle
  /\ lastPlay' = NoPlay
  /\ UNCHANGED <<env, phase, isGsapAvailable, isWebAnimationAvailable,
                 activeAnimations, handles, style, nCalls, trigger,
                 disableAllAnimations, disableScrollAnimations, animationState,
                 userStarts, userCompletes>>

\* The observer reports the element intersecting: playAnimation of the
\* effect's render, then observer.disconnect().
Intersect ==
  /\ phase = "mounted"
  /\ observer
  /\ PlayAnimation("observer", timers, effectSnap.state, effectSnap.hook, FALSE)
  /\ observer' = FALSE
  /\ UNCHANGED <<env, phase, isGsapAvailable, isWebAnimationAvailable, trigger,
                 disableAllAnimations, disableScrollAnimations, effectSnap,
                 effectsPending>>

\* The 10 ms timer of the 'load' trigger runs playAnimation of the effect's
\* render.
LoadFire ==
  /\ phase = "mounted"
  /\ \E t \in DueTimers :
       /\ \A u \in DueTimers : t.id <= u.id
       /\ t.kind = "load"
       /\ PlayAnimation("timer", timers \ {t}, effectSnap.state, effectSnap.hook,
                        FALSE)
  /\ UNCHANGED <<env, phase, isGsapAvailable, isWebAnimationAvailable, trigger,
                 disableAllAnimations, disableScrollAnimations, observer,
                 effectSnap, effectsPending>>

\* getEventHandlers: no handler is attached while disableAllAnimations.
MouseEnter ==
  /\ phase = "mounted"
  /\ ~effectsPending.set
  /\ trigger = "hover"
  /\ ~disableAllAnimations
  /\ PlayAnimation("event", timers, animationState, LatestClosure,
                   disableAllAnimations)
  /\ UNCHANGED <<env, phase, isGsapAvailable, isWebAnimationAvailable, trigger,
                 disableAllAnimations, disableScrollAnimations, observer,
                 effectSnap, effectsPending>>

Click ==
  /\ phase = "mounted"
  /\ ~effectsPending.set
  /\ trigger = "click"
  /\ ~disableAllAnimations
  /\ PlayAnimation("event", timers, animationState, LatestClosure,
                   disableAllAnimations)
  /\ UNCHANGED <<env, phase, isGsapAvailable, isWebAnimationAvailable, trigger,
                 disableAllAnimations, disableScrollAnimations, observer,
                 effectSnap, effectsPending>>

\* GSAP starts to render a tween created from FadeIn's props: the vars it
\* was given carry onStart, and GSAP invokes it.
GsapStart ==
  /\ \E h \in HandleIds :
       /\ handles[h].backend = "gsap"
       /\ handles[h].cb = "fadein"
       /\ Running(h)
       /\ handles[h].starts = 1
       /\ handles' = [handles EXCEPT ![h].starts = @ + 1]
  /\ userStarts' = userStarts + 1
  /\ lastCall' = NoCall
  /\ ElsewhereIdle
  /\ lastPlay' = NoPlay
  /\ UNCHANGED <<env, phase, isGsapAvailable, isWebAnimationAvailable,
                 activeAnimations, timers, nextTimer, style, nCalls, trigger,
                 disableAllAnimations, disableScrollAnimations, animationState,
                 observer, effectSnap, effectsPending, userCompletes>>

\* resetAnimation
ResetAnimation(dAll) ==
  /\ ElsewhereIdle
  /\ animationState' = IF dAll THEN animationState
                       ELSE [hasAnimated |-> FALSE, isAnimating |-> FALSE]
  /\ lastCall' = NoCall
  /\ lastPlay' = NoPlay
  /\ UNCHANGED <<env, phase, isGsapAvailable, isWebAnimationAvailable,
                 activeAnimations, handles, timers, nextTimer, style, nCalls,
                 trigger, disableAllAnimations, disableScrollAnimations,
                 observer, effectSnap, effectsPending, userStarts,
                 userCompletes>>

MouseLeave ==
  /\ phase = "mounted"
  /\ ~effectsPending.set
  /\ trigger = "hover"
  /\ ~disableAllAnimations
  /\ ResetAnimation(disableAllAnimations)

\* play and reset as handed to a render-prop child.
ManualPlay ==
  /\ phase = "mounted"
  /\ ~effectsPending.set
  /\ PlayAnimation("child", timers, animationState, LatestClosure,
                   disableAllAnimations)
  /\ UNCHANGED <<env, phase, isGsapAvailable, isWebAnimationAvailable, trigger,
                 disableAllAnimations, disableScrollAnimations, observer,
                 effectSnap, effectsPending>>

ManualReset ==
  /\ phase = "mounted"
  /\ ~effectsPending.set
  /\ animationState # [hasAnimated |-> FALSE, isAnimating |-> FALSE]
  /\ ResetAnimation(disableAllAnimations)

\* FadeIn unmounts: the hook's cleanup (killAll of the first render), then
\* the trigger effect's cleanup.
FadeInUnmount ==
  /\ phase = "mounted"
  /\ ~effectsPending.set
  /\ phase' = "unmounted"
  /\ handles' = KilledHandles(SeqRange(FirstClosure.active))
  /\ timers' = EffectCleanup(KilledTimers(SeqRange(FirstClosure.active), timers))
  /\ style' = KilledStyle(SeqRange(FirstClosure.active))
  /\ observer' = FALSE
  /\ lastCall' = NoCall
  /\ ElsewhereIdle
  /\ lastPlay' = NoPlay
  /\ UNCHANGED <<env, isGsapAvailable, isWebAnimationAvailable,
                 activeAnimations, nextTimer, nCalls, trigger,
                 disableAllAnimations, disableScrollAnimations, animationState,
                 effectSnap, effectsPending, userStarts, userCompletes>>

InitFadeIn ==
  /\ InitHook
  /\ trigger \in Triggers
  /\ disableAllAnimations \in BOOLEAN
  /\ disableScrollAnimations \in BOOLEAN
  /\ animationState = [hasAnimated |-> FALSE, isAnimating |-> FALSE]
  /\ observer = FALSE
  /\ effectSnap = [state |-> animationState, hook |-> FirstClosure]
  /\ effectsPending = NoRender
  /\ userStarts = 0
  /\ userCompletes = 0
  /\ lastPlay = NoPlay
  /\ NoCss
  /\ NoTyping
  /\ NoMarquee
  /\ NoProvider
  /\ NoEasing
  /\ NoProbe
  /\ NoButton
  /\ NoTransform
  /\ NoMagnetic
  /\ NoUseAnimation

NextFadeIn ==
  \/ FadeInMount
  \/ SettingsChange
  \/ FlushEffects
  \/ Intersect
  \/ LoadFire
  \/ MouseEnter
  \/ MouseLeave
  \/ Click
  \/ ManualPlay
  \/ ManualReset
  \/ FadeInUnmount
  \/ GsapStart
  \/ FireTimer
  \/ Advance
  \/ BackendFinish

SpecFadeIn == InitFadeIn /\ [][NextFadeIn]_vars


\* ----------------------------------------------------------- applyCssAnimation

\* injectCSSKeyframes(): appends the style element to document.head unless
\* there is no document or getElementById finds one with the id already.
\* n is the number of style elements with the id.
injectCSSKeyframes_NoCheck(doc, n) == IF doc THEN n + 1 ELSE n

injectCSSKeyframes(doc, n) == IF doc /\ n = 0 THEN n + 1 ELSE n

\* A component's mount effect calls injectCSSKeyframes (FadeIn, SlideIn,
\* TextReveal, AnimatedButton), on the server or in the browser.
InjectCall ==
  /\ cssInjects < MaxInjects
  /\ cssKeyframes' = injectCSSKeyframes(cssDocument, cssKeyframes)
  /\ cssInjects' = cssInjects + 1
  /\ UNCHANGED <<cssAnim, cssEnded, cssApps, cssDocument>>
  /\ CssAlone

\* applyCssAnimation(element, props): calls injectCSSKeyframes, sets element.style.animation and, when
\* props.onComplete is a function, adds an 'animationend' listener that
\* calls it and removes itself.  completed: the animation this call set has
\* run to its end; killed: kill() was called before that; late counts the
\* onComplete invocations made after such a kill.
ApplyCss ==
  /\ Len(cssApps) < MaxApps
  /\ cssDocument
  /\ cssKeyframes' = injectCSSKeyframes(cssDocument, cssKeyframes)
  /\ cssInjects' = IF cssInjects < MaxInjects THEN cssInjects + 1 ELSE cssInjects
  /\ UNCHANGED cssDocument
  /\ \E hasCb \in BOOLEAN :
       cssApps' = Append(cssApps,
                    [cb |-> hasCb, listening |-> hasCb, completed |-> FALSE,
                     killed |-> FALSE, done |-> 0, late |-> 0])
  /\ cssAnim' = Len(cssApps) + 1
  /\ cssEnded' = FALSE
  /\ CssAlone

\* kill() of the handle of call a: element.style.animation = ''.
KillCss ==
  /\ \E a \in 1..Len(cssApps) :
       cssApps' = [cssApps EXCEPT ![a].killed = @ \/ ~cssApps[a].completed]
  /\ cssAnim' = 0
  /\ cssEnded' = FALSE
  /\ UNCHANGED <<cssDocument, cssKeyframes, cssInjects>>
  /\ CssAlone

\* An 'animationend' event reaches the element: every listener still
\* attached runs.
Dispatch(apps) ==
  [a \in 1..Len(apps) |->
     IF apps[a].listening
     THEN [apps[a] EXCEPT !.listening = FALSE,
                          !.done = @ + 1,
                          !.late = IF apps[a].killed THEN @ + 1 ELSE @]
     ELSE apps[a]]

\* The animation element.style.animation names runs to its end.
AnimationEnd ==
  /\ cssAnim # 0
  /\ ~cssEnded
  /\ cssEnded' = TRUE
  /\ cssApps' = Dispatch([cssApps EXCEPT ![cssAnim].completed = TRUE])
  /\ UNCHANGED <<cssAnim, cssDocument, cssKeyframes, cssInjects>>
  /\ CssAlone

\* The animation of a descendant ends and its 'animationend' bubbles to the
\* element.
BubbledAnimationEnd ==
  /\ \E a \in 1..Len(cssApps) : cssApps[a].listening
  /\ cssApps' = Dispatch(cssApps)
  /\ UNCHANGED <<cssAnim, cssEnded, cssDocument, cssKeyframes, cssInjects>>
  /\ CssAlone

\* Nothing here reads the hook's state: the page is fixed.  The module is
\* loaded in a browser or on a server, where there is no document.
InitCss ==
  /\ InitHook
  /\ env = [gsap |-> FALSE, web |-> FALSE]
  /\ NoFadeIn
  /\ cssAnim = 0
  /\ cssEnded = FALSE
  /\ cssApps = <<>>
  /\ cssDocument \in BOOLEAN
  /\ cssKeyframes = 0
  /\ cssInjects = 0
  /\ NoTyping
  /\ NoMarquee
  /\ NoProvider
  /\ NoEasing
  /\ NoProbe
  /\ NoButton
  /\ NoTransform
  /\ NoMagnetic
  /\ NoUseAnimation

NextCss ==
  \/ InjectCall
  \/ ApplyCss
  \/ KillCss
  \/ AnimationEnd
  \/ BubbledAnimationEnd

SpecCss == InitCss /\ [][NextCss]_vars

\* ------------------------------------------------------------------ TypingText

Texts == UNION {[1..n -> 0..MaxTextLen] : n \in 1..MaxTexts}

\* the loop prop: a number or Infinity
Loops == [inf : {FALSE}, n : 0..MaxLoop] \cup {[inf |-> TRUE, n |-> 0]}

Delayed(index, charIndex, isDeleting, tracked) ==
  [index |-> index, charIndex |-> charIndex, isDeleting |-> isDeleting,
   set |-> TRUE, tracked |-> tracked]

typeText_OneMore(index, charIndex, isDeleting, refOk) ==
  LET n == Len(ttProps.texts)
      len == ttProps.texts[(index % n) + 1]
      keep(i) == IF ttProps.loop.inf THEN i % n ELSE i
      stop == [shown |-> ttShown, pending |-> NoDelayed, completes |-> 0]
  IN  IF ~isDeleting /\ charIndex <= len
      THEN IF refOk
           THEN [shown |-> charIndex,
                 pending |-> Delayed(index, charIndex + 1, isDeleting, FALSE),
                 completes |-> 0]
           ELSE stop
      ELSE IF isDeleting /\ charIndex >= 0
      THEN IF refOk
           THEN [shown |-> IF charIndex > len THEN len ELSE charIndex,
                 pending |-> Delayed(index, charIndex - 1, isDeleting, FALSE),
                 completes |-> 0]
           ELSE stop
      ELSE IF ~isDeleting /\ charIndex > len
      THEN IF n > 1 \/ ttProps.loop.inf \/ ttProps.loop.n # 0
           THEN [shown |-> ttShown,
                 pending |-> Delayed(index, charIndex, TRUE, FALSE),
                 completes |-> 0]
           ELSE [stop EXCEPT !.completes = 1]
      ELSE IF index + 1 < n \/ ttProps.loop.inf
              \/ index + 1 <= n * (ttProps.loop.n + 1)
           THEN [shown |-> ttShown,
                 pending |-> Delayed(keep(index + 1), 0, FALSE, FALSE),
                 completes |-> 0]
           ELSE [stop EXCEPT !.completes = 1]

\* typeText(index, charIndex, isDeleting) with the refs attached (refOk) or
\* not: the text it shows, the delayedCall it sets, the onComplete calls it
\* makes.  Writing textContent of a null ref throws.  Under loop = Infinity
\* only index % textArray.length is ever used, and that is what is kept.
typeText(index, charIndex, isDeleting, refOk) ==
  LET n == Len(ttProps.texts)
      len == ttProps.texts[(index % n) + 1]
      keep(i) == IF ttProps.loop.inf THEN i % n ELSE i
      stop == [shown |-> ttShown, pending |-> NoDelayed, completes |-> 0]
  IN  IF ~isDeleting /\ charIndex <= len
      THEN IF refOk
           THEN [shown |-> charIndex,
                 pending |-> Delayed(index, charIndex + 1, isDeleting, FALSE),
                 completes |-> 0]
           ELSE stop
      ELSE IF isDeleting /\ charIndex >= 0
      THEN IF refOk
           THEN [shown |-> IF charIndex > len THEN len ELSE charIndex,
                 pending |-> Delayed(index, charIndex - 1, isDeleting, FALSE),
                 completes |-> 0]
           ELSE stop
      ELSE IF ~isDeleting /\ charIndex > len
      THEN IF n > 1 \/ ttProps.loop.inf \/ ttProps.loop.n # 0
           THEN [shown |-> ttShown,
                 pending |-> Delayed(index, charIndex, TRUE, FALSE),
                 completes |-> 0]
           ELSE [stop EXCEPT !.completes = 1]
      ELSE IF index + 1 < n \/ ttProps.loop.inf
              \/ index + 1 < n * (ttProps.loop.n + 1)
           THEN [shown |-> ttShown,
                 pending |-> Delayed(keep(index + 1), 0, FALSE, FALSE),
                 completes |-> 0]
           ELSE [stop EXCEPT !.completes = 1]

TypingDisabled ==
  ttProps.disableAll \/ (ttProps.trigger = "scroll" /\ ttProps.disableScroll)

\* The useGSAP callback on mount.  The first delayedCall is set before the
\* trigger is looked at.  ScrollTrigger is not imported by the file: where
\* no global of that name exists, ScrollTrigger.create throws out of the
\* callback after the delayedCall has been set, and whether that call
\* survives the failed mount is left open.
TypingMount ==
  /\ ttPhase = "rendered"
  /\ IF TypingDisabled
     THEN /\ ttShown' = ttProps.texts[Len(ttProps.texts)]
          /\ ttPhase' = "mounted"
          /\ UNCHANGED <<ttPending, ttObserving>>
     ELSE IF ttProps.trigger \notin {"load", "scroll"}
     THEN /\ ttPhase' = "mounted"
          /\ UNCHANGED <<ttShown, ttPending, ttObserving>>
     ELSE IF ttProps.trigger = "scroll" /\ ~ttProps.scrollTriggerDefined
     THEN /\ ttPhase' = "crashed"
          /\ ttPending' \in {NoDelayed, Delayed(0, 0, FALSE, TRUE)}
          /\ UNCHANGED <<ttShown, ttObserving>>
     ELSE /\ ttPhase' = "mounted"
          /\ ttPending' = Delayed(0, 0, FALSE, TRUE)
          /\ ttObserving' = (ttProps.trigger = "scroll")
          /\ ttShown' = ttShown
  /\ UNCHANGED <<ttProps, ttStarted, ttEntered, ttCompletes>>
  /\ TypingAlone

\* The pending gsap.delayedCall runs its callback.
FireDelayed ==
  /\ ttPending.set
  /\ LET r == typeText(ttPending.index, ttPending.charIndex,
                       ttPending.isDeleting, ttPhase = "mounted")
     IN  /\ ttShown' = r.shown
         /\ ttPending' = r.pending
         /\ ttCompletes' = ttCompletes + r.completes
  /\ ttStarted' = (ttStarted \/ ttPhase = "mounted")
  /\ UNCHANGED <<ttProps, ttPhase, ttEntered, ttObserving>>
  /\ TypingAlone

\* ScrollTrigger's onEnter: plays the paused, empty timeline.
ScrollEnter ==
  /\ ttObserving
  /\ ~ttEntered
  /\ ttEntered' = TRUE
  /\ UNCHANGED <<ttProps, ttPhase, ttShown, ttPending, ttStarted, ttObserving,
                 ttCompletes>>
  /\ TypingAlone

\* Unmount: useGSAP reverts its context (what was created while the callback
\* ran, the first delayedCall included) and the cleanup kills the
\* ScrollTrigger.  A delayedCall set later, from inside a delayedCall, is not
\* part of the context.
TypingUnmount ==
  /\ ttPhase = "mounted"
  /\ ttPhase' = "unmounted"
  /\ ttPending' = IF ttPending.tracked THEN NoDelayed ELSE ttPending
  /\ ttObserving' = FALSE
  /\ UNCHANGED <<ttProps, ttShown, ttStarted, ttEntered, ttCompletes>>
  /\ TypingAlone

InitTyping ==
  /\ InitHook
  /\ env = [gsap |-> TRUE, web |-> TRUE]
  /\ NoFadeIn
  /\ NoCss
  /\ ttProps \in [trigger : {"load", "scroll", "none"}, texts : Texts,
                  loop : Loops, disableAll : BOOLEAN, disableScroll : BOOLEAN,
                  scrollTriggerDefined : BOOLEAN]
  /\ ttPhase = "rendered"
  /\ ttShown = 0
  /\ ttPending = NoDelayed
  /\ ttStarted = FALSE
  /\ ttEntered = FALSE
  /\ ttObserving = FALSE
  /\ ttCompletes = 0
  /\ NoMarquee
  /\ NoProvider
  /\ NoEasing
  /\ NoProbe
  /\ NoButton
  /\ NoTransform
  /\ NoMagnetic
  /\ NoUseAnimation

NextTyping ==
  \/ TypingMount
  \/ FireDelayed
  \/ ScrollEnter
  \/ TypingUnmount

SpecTyping == InitTyping /\ [][NextTyping]_vars

\* A delayedCall that is set runs when its time has come.
SpecTypingFair == SpecTyping /\ WF_vars(FireDelayed)


\* --------------------------------------------------------------------- Marquee

\* createAnimation: kills the tween animationRef holds, then stores a new
\* gsap.to(..., {repeat: -1}) tween in animationRef.
createAnimation(tweens, ref) ==
  LET killed == IF ref # 0 THEN [tweens EXCEPT ![ref] = "killed"] ELSE tweens
  IN  [tweens |-> Append(killed, "running"), ref |-> Len(tweens) + 1]

\* The body of the effect: createAnimation, two anonymous listeners on the
\* container when pauseOnHover, one 'resize' listener on window.
MarqueeEffect(tweens, hover, resize, pauseOnHover) ==
  LET c == createAnimation(tweens, mqRef)
  IN  /\ mqTweens' = c.tweens
      /\ mqRef' = c.ref
      /\ mqHover' = IF pauseOnHover THEN hover + 1 ELSE hover
      /\ mqResize' = resize + 1

\* The effect's cleanup: kill the tween in animationRef, remove the
\* 'resize' listener.  animationRef keeps pointing at the killed tween.
MarqueeCleanupTweens ==
  IF mqRef # 0 THEN [mqTweens EXCEPT ![mqRef] = "killed"] ELSE mqTweens

MarqueeMount ==
  /\ mqPhase = "rendered"
  /\ mqPhase' = "mounted"
  /\ MarqueeEffect(mqTweens, mqHover, mqResize, mqPauseOnHover)
  /\ UNCHANGED mqPauseOnHover
  /\ MarqueeAlone

\* A render changes one of the effect's dependencies (direction, speed,
\* pauseOnHover, spacing, children): cleanup, then the effect again.
MarqueeRerender ==
  /\ mqPhase = "mounted"
  /\ Len(mqTweens) < MaxTweens
  /\ \E poh \in BOOLEAN :
       /\ mqPauseOnHover' = poh
       /\ MarqueeEffect(MarqueeCleanupTweens, mqHover, mqResize - 1, poh)
  /\ UNCHANGED mqPhase
  /\ MarqueeAlone

\* window fires 'resize': handleResize kills the tween and calls
\* createAnimation.
MarqueeResize ==
  /\ mqPhase = "mounted"
  /\ mqResize > 0
  /\ Len(mqTweens) < MaxTweens
  /\ LET c == createAnimation(MarqueeCleanupTweens, mqRef)
     IN  /\ mqTweens' = c.tweens
         /\ mqRef' = c.ref
  /\ UNCHANGED <<mqPhase, mqPauseOnHover, mqHover, mqResize>>
  /\ MarqueeAlone

\* The pointer enters / leaves the container: every mouseenter listener
\* pauses, every mouseleave listener plays, the tween animationRef holds.
MarqueeMouseEnter ==
  /\ mqPhase = "mounted"
  /\ mqHover > 0
  /\ mqRef # 0
  /\ mqTweens[mqRef] = "running"
  /\ mqTweens' = [mqTweens EXCEPT ![mqRef] = "paused"]
  /\ UNCHANGED <<mqPhase, mqPauseOnHover, mqRef, mqHover, mqResize>>
  /\ MarqueeAlone

MarqueeMouseLeave ==
  /\ mqPhase = "mounted"
  /\ mqHover > 0
  /\ mqRef # 0
  /\ mqTweens[mqRef] = "paused"
  /\ mqTweens' = [mqTweens EXCEPT ![mqRef] = "running"]
  /\ UNCHANGED <<mqPhase, mqPauseOnHover, mqRef, mqHover, mqResize>>
  /\ MarqueeAlone

MarqueeUnmount ==
  /\ mqPhase = "mounted"
  /\ mqPhase' = "unmounted"
  /\ mqTweens' = MarqueeCleanupTweens
  /\ mqResize' = mqResize - 1
  /\ UNCHANGED <<mqPauseOnHover, mqRef, mqHover>>
  /\ MarqueeAlone

InitMarquee ==
  /\ InitHook
  /\ env = [gsap |-> TRUE, web |-> TRUE]
  /\ NoFadeIn
  /\ NoCss
  /\ NoTyping
  /\ mqPhase = "rendered"
  /\ mqPauseOnHover \in BOOLEAN
  /\ mqTweens = <<>>
  /\ mqRef = 0
  /\ mqHover = 0
  /\ mqResize = 0
  /\ NoProvider
  /\ NoEasing
  /\ NoProbe
  /\ NoButton
  /\ NoTransform
  /\ NoMagnetic
  /\ NoUseAnimation

NextMarquee ==
  \/ MarqueeMount
  \/ MarqueeRerender
  \/ MarqueeResize
  \/ MarqueeMouseEnter
  \/ MarqueeMouseLeave
  \/ MarqueeUnmount

SpecMarquee == InitMarquee /\ [][NextMarquee]_vars


\* ----------------------------------------------------------- AnimationProvider

\* {...prevSettings, ...newSettings}: a patch is a function from the fields
\* it names to their new values.
Merge_Replace(prev, patch) ==
  [f \in DOMAIN prev |->
     IF f \in DOMAIN patch THEN patch[f] ELSE defaultAnimationSettings[f]]

Merge(prev, patch) ==
  [f \in DOMAIN prev |-> IF f \in DOMAIN patch THEN patch[f] ELSE prev[f]]

\* The objects handleMotionChange and the battery callbacks pass to
\* updateSettings.
MotionPatch_AllOnly(matches) ==
  [f \in {"disableAllAnimations"} |-> matches]

MotionPatch(matches) ==
  [disableAllAnimations |-> matches, disableScrollAnimations |-> matches]

QualityPatch(q) == [f \in {"animationQuality"} |-> q]

\* What application code passes to updateSettings, and the settings prop.
AppPatches ==
  { [f \in {"disableAllAnimations"} |-> FALSE],
    [f \in {"disableScrollAnimations"} |-> TRUE],
    [disableAllAnimations |-> TRUE, animationQuality |-> "medium"] }

SettingsProps == {<<>>, [f \in {"disableAllAnimations"} |-> TRUE]}

\* updateSettings(newSettings) called by src: the updater is queued, and
\* React drops it when the provider is not mounted.
updateSettings(src, patch) ==
  /\ apCalls' = apCalls + 1
  /\ IF apPhase = "mounted"
     THEN /\ apQueue' = Append(apQueue, [src |-> src, patch |-> patch])
          /\ apLastWrite' = Merge(apLastWrite, patch)
     ELSE UNCHANGED <<apQueue, apLastWrite>>

\* The updaters of the first effects run at mount.
ProviderMount ==
  /\ apPhase = "rendered"
  /\ apPhase' = "mounted"
  /\ IF apMatches
     THEN /\ apQueue' = Append(apQueue, [src |-> "motion", patch |-> MotionPatch(TRUE)])
          /\ apLastWrite' = Merge(apLastWrite, MotionPatch(TRUE))
          /\ apCalls' = apCalls + 1
     ELSE UNCHANGED <<apQueue, apLastWrite, apCalls>>
  /\ apListening' = (apEnv.listenerApi \in {"modern", "legacy"})
  /\ apBattery' = IF apEnv.battery THEN "pending" ELSE "none"
  /\ UNCHANGED <<apEnv, apSettings, apMatches, apLastApplied>>
  /\ ProviderAlone

\* React applies the oldest queued updater to the state.
ApplyUpdate ==
  /\ apPhase = "mounted"
  /\ apQueue # <<>>
  /\ apSettings' = Merge(apSettings, Head(apQueue).patch)
  /\ apQueue' = Tail(apQueue)
  /\ apLastApplied' = [src |-> Head(apQueue).src, patch |-> Head(apQueue).patch,
                       before |-> apSettings]
  /\ UNCHANGED <<apEnv, apPhase, apMatches, apListening, apBattery, apCalls,
                 apLastWrite>>
  /\ ProviderAlone

\* Application code calls the updateSettings of the context value.
AppUpdate ==
  /\ apPhase = "mounted"
  /\ apCalls < MaxUpdates
  /\ \E patch \in AppPatches : updateSettings("app", patch)
  /\ UNCHANGED <<apEnv, apPhase, apSettings, apMatches, apListening, apBattery,
                 apLastApplied>>
  /\ ProviderAlone

\* The user's motion preference changes; the query fires 'change' at the
\* registered handler.
MotionChange ==
  /\ apCalls < MaxUpdates
  /\ apMatches' = ~apMatches
  /\ IF apListening
     THEN updateSettings("motion", MotionPatch(apMatches'))
     ELSE UNCHANGED <<apQueue, apLastWrite, apCalls>>
  /\ UNCHANGED <<apEnv, apPhase, apSettings, apListening, apBattery,
                 apLastApplied>>
  /\ ProviderAlone

\* What a battery reading makes the provider do: level is "low" (< 0.2),
\* "mid" or "high" (> 0.5).
BatteryReading(level, charging, first) ==
  IF level = "low" /\ ~charging
  THEN updateSettings("battery", QualityPatch("low"))
  ELSE IF ~first /\ (level = "high" \/ charging)
  THEN updateSettings("battery", QualityPatch("high"))
  ELSE UNCHANGED <<apQueue, apLastWrite, apCalls>>

\* navigator.getBattery() resolves: first reading, then the 'levelchange'
\* listener is added (it is never removed).
BatteryResolved ==
  /\ apBattery = "pending"
  /\ apCalls < MaxUpdates
  /\ apBattery' = "listening"
  /\ \E level \in {"low", "mid", "high"}, charging \in BOOLEAN :
       BatteryReading(level, charging, TRUE)
  /\ UNCHANGED <<apEnv, apPhase, apSettings, apMatches, apListening,
                 apLastApplied>>
  /\ ProviderAlone

BatteryLevelChange ==
  /\ apBattery = "listening"
  /\ apCalls < MaxUpdates
  /\ \E level \in {"low", "mid", "high"}, charging \in BOOLEAN :
       BatteryReading(level, charging, FALSE)
  /\ UNCHANGED <<apEnv, apPhase, apSettings, apMatches, apListening, apBattery,
                 apLastApplied>>
  /\ ProviderAlone

\* Unmount: the 'change' listener is removed, pending updaters are dropped.
ProviderUnmount ==
  /\ apPhase = "mounted"
  /\ apPhase' = "unmounted"
  /\ apListening' = FALSE
  /\ apQueue' = <<>>
  /\ UNCHANGED <<apEnv, apSettings, apMatches, apBattery, apCalls, apLastWrite,
                 apLastApplied>>
  /\ ProviderAlone

InitProvider ==
  /\ InitHook
  /\ env = [gsap |-> TRUE, web |-> TRUE]
  /\ NoFadeIn
  /\ NoCss
  /\ NoTyping
  /\ NoMarquee
  /\ apEnv \in [listenerApi : {"modern", "legacy", "none"}, battery : BOOLEAN]
  /\ apPhase = "rendered"
  /\ \E settings \in SettingsProps :
       /\ apSettings = Merge(defaultAnimationSettings, settings)
       /\ apLastWrite = apSettings
  /\ apQueue = <<>>
  /\ apMatches \in BOOLEAN
  /\ apListening = FALSE
  /\ apBattery = "none"
  /\ apCalls = 0
  /\ apLastApplied = NoUpdate
  /\ NoEasing
  /\ NoProbe
  /\ NoButton
  /\ NoTransform
  /\ NoMagnetic
  /\ NoUseAnimation

NextProvider ==
  \/ ProviderMount
  \/ ApplyUpdate
  \/ AppUpdate
  \/ MotionChange
  \/ BatteryResolved
  \/ BatteryLevelChange
  \/ ProviderUnmount

SpecProvider == InitProvider /\ [][NextProvider]_vars


\* ---------------------------------------------------- mapEasing, convertEase

\* The three easing tables.  Each is an object literal, so a lookup that
\* finds no own property goes on to Object.prototype.
\* utils/fallbacks.js mapEasing
easingMap ==
     "none"           :> "linear"
  @@ "power1.in"      :> "cubic-bezier(0.550, 0.085, 0.680, 0.530)"
  @@ "power1.out"     :> "cubic-bezier(0.250, 0.460, 0.450, 0.940)"
  @@ "power1.inOut"   :> "cubic-bezier(0.455, 0.030, 0.515, 0.955)"
  @@ "power2.in"      :> "cubic-bezier(0.550, 0.055, 0.675, 0.190)"
  @@ "power2.out"     :> "cubic-bezier(0.215, 0.610, 0.355, 1.000)"
  @@ "power2.inOut"   :> "cubic-bezier(0.645, 0.045, 0.355, 1.000)"
  @@ "power3.in"      :> "cubic-bezier(0.895, 0.030, 0.685, 0.220)"
  @@ "power3.out"     :> "cubic-bezier(0.165, 0.840, 0.440, 1.000)"
  @@ "power3.inOut"   :> "cubic-bezier(0.770, 0.000, 0.175, 1.000)"
  @@ "power4.in"      :> "cubic-bezier(0.895, 0.030, 0.685, 0.220)"
  @@ "power4.out"     :> "cubic-bezier(0.165, 0.840, 0.440, 1.000)"
  @@ "power4.inOut"   :> "cubic-bezier(0.770, 0.000, 0.175, 1.000)"
  @@ "back.in"        :> "cubic-bezier(0.600, -0.280, 0.735, 0.045)"
  @@ "back.out"       :> "cubic-bezier(0.175, 0.885, 0.320, 1.275)"
  @@ "back.inOut"     :> "cubic-bezier(0.680, -0.550, 0.265, 1.550)"
  @@ "elastic.in"     :> "cubic-bezier(0.700, 0.000, 0.835, 0.000)"
  @@ "elastic.out"    :> "cubic-bezier(0.165, 0.840, 0.440, 1.000)"
  @@ "elastic.inOut"  :> "cubic-bezier(0.770, 0.000, 0.175, 1.000)"
  @@ "circ.in"        :> "cubic-bezier(0.600, 0.040, 0.980, 0.335)"
  @@ "circ.out"       :> "cubic-bezier(0.075, 0.820, 0.165, 1.000)"
  @@ "circ.inOut"     :> "cubic-bezier(0.785, 0.135, 0.150, 0.860)"
  @@ "expo.in"        :> "cubic-bezier(0.950, 0.050, 0.795, 0.035)"
  @@ "expo.out"       :> "cubic-bezier(0.190, 1.000, 0.220, 1.000)"
  @@ "expo.inOut"     :> "cubic-bezier(1.000, 0.000, 0.000, 1.000)"
  @@ "sine.in"        :> "cubic-bezier(0.470, 0.000, 0.745, 0.715)"
  @@ "sine.out"       :> "cubic-bezier(0.390, 0.575, 0.565, 1.000)"
  @@ "sine.inOut"     :> "cubic-bezier(0.445, 0.050, 0.550, 0.950)"

\* useSafeAnimation.js createWebAnimation
webEasingMap ==
     "none"           :> "linear"
  @@ "power1.in"      :> "ease-in"
  @@ "power1.out"     :> "ease-out"
  @@ "power1.inOut"   :> "ease-in-out"
  @@ "power2.in"      :> "cubic-bezier(0.55, 0.055, 0.675, 0.19)"
  @@ "power2.out"     :> "cubic-bezier(0.215, 0.61, 0.355, 1)"
  @@ "power2.inOut"   :> "cubic-bezier(0.645, 0.045, 0.355, 1)"
  @@ "power3.in"      :> "cubic-bezier(0.755, 0.05, 0.855, 0.06)"
  @@ "power3.out"     :> "cubic-bezier(0.23, 1, 0.32, 1)"
  @@ "power3.inOut"   :> "cubic-bezier(0.645, 0.045, 0.355, 1)"
  @@ "power4.in"      :> "cubic-bezier(0.895, 0.03, 0.685, 0.22)"
  @@ "power4.out"     :> "cubic-bezier(0.165, 0.84, 0.44, 1)"
  @@ "power4.inOut"   :> "cubic-bezier(0.77, 0, 0.175, 1)"
  @@ "expo.in"        :> "cubic-bezier(0.95, 0.05, 0.795, 0.035)"
  @@ "expo.out"       :> "cubic-bezier(0.19, 1, 0.22, 1)"
  @@ "expo.inOut"     :> "cubic-bezier(1, 0, 0, 1)"
  @@ "elastic.in"     :> "cubic-bezier(0.7, 0, 0.84, 0)"
  @@ "elastic.out"    :> "cubic-bezier(0.16, 1, 0.3, 1)"
  @@ "elastic.inOut"  :> "cubic-bezier(0.87, 0, 0.13, 1)"

\* useSafeAnimation.js createCSSAnimation
cssEasingMap ==
     "none"           :> "linear"
  @@ "power1.in"      :> "ease-in"
  @@ "power1.out"     :> "ease-out"
  @@ "power1.inOut"   :> "ease-in-out"
  @@ "power2.in"      :> "ease-in"
  @@ "power2.out"     :> "ease-out"
  @@ "power2.inOut"   :> "ease-in-out"
  @@ "power3.in"      :> "ease-in"
  @@ "power3.out"     :> "ease-out"
  @@ "power3.inOut"   :> "ease-in-out"
  @@ "elastic.in"     :> "ease-in"
  @@ "elastic.out"    :> "ease-out"
  @@ "elastic.inOut"  :> "ease-in-out"
  @@ "expo.in"        :> "ease-in"
  @@ "expo.out"       :> "ease-out"
  @@ "expo.inOut"     :> "ease-in-out"

\* The value of an absent argument and of a lookup that finds nothing.
JsUndefined == "undefined"

\* Property names every object literal inherits; their values are functions
\* or objects, all truthy.
InheritedKeys == {"constructor", "toString", "valueOf", "hasOwnProperty",
                  "__proto__"}

\* map[key] of JavaScript.
Lookup(map, key) ==
  IF key \in DOMAIN map THEN map[key]
  ELSE IF key \in InheritedKeys THEN "Object.prototype." \o key
  ELSE JsUndefined

\* value || 'ease-out': every value a lookup yields but undefined is truthy.
OrEaseOut(value) == IF value = JsUndefined THEN "ease-out" ELSE value

\* mapEasing(gsapEase = 'power2.out').
mapEasing(gsapEase) ==
  LET e == IF gsapEase = JsUndefined THEN "power2.out" ELSE gsapEase
  IN OrEaseOut(Lookup(easingMap, e))

\* convertEase(gsapEase) of createWebAnimation and of createCSSAnimation.
convertEaseWeb(gsapEase) == OrEaseOut(Lookup(webEasingMap, gsapEase))

convertEaseCss(gsapEase) == OrEaseOut(Lookup(cssEasingMap, gsapEase))

\* Names of no table: parameterised, misspelt, of another library, and
\* names of Object.prototype members.
UnknownNames == {"back.out(1.7)", "bounce.out", "power2", "linear",
                 "elastic.out(1, 0.3)"} \cup InheritedKeys

EaseNames == DOMAIN easingMap \cup DOMAIN webEasingMap \cup DOMAIN cssEasingMap
               \cup UnknownNames \cup {JsUndefined}

EaseTable(fn) ==
  CASE fn = "mapEasing" -> easingMap
    [] fn = "web" -> webEasingMap
    [] fn = "css" -> cssEasingMap

MapEasingCall ==
  /\ easeFn = "none"
  /\ easeFn' = "mapEasing"
  /\ easeResult' = mapEasing(easeName)
  /\ UNCHANGED easeName
  /\ EasingAlone

ConvertEaseWebCall ==
  /\ easeFn = "none"
  /\ easeFn' = "web"
  /\ easeResult' = convertEaseWeb(easeName)
  /\ UNCHANGED easeName
  /\ EasingAlone

ConvertEaseCssCall ==
  /\ easeFn = "none"
  /\ easeFn' = "css"
  /\ easeResult' = convertEaseCss(easeName)
  /\ UNCHANGED easeName
  /\ EasingAlone

InitEasing ==
  /\ InitHook
  /\ env = [gsap |-> FALSE, web |-> FALSE]
  /\ NoFadeIn
  /\ NoCss
  /\ NoTyping
  /\ NoMarquee
  /\ NoProvider
  /\ easeName \in EaseNames
  /\ easeFn = "none"
  /\ easeResult = JsUndefined
  /\ NoProbe
  /\ NoButton
  /\ NoTransform
  /\ NoMagnetic
  /\ NoUseAnimation

NextEasing ==
  \/ MapEasingCall
  \/ ConvertEaseWebCall
  \/ ConvertEaseCssCall

SpecEasing == InitEasing /\ [][NextEasing]_vars


\* ------------------------------------------------------------ capability probes

\* Pages: window may be missing (no DOM), window.gsap and
\* window.ScrollTrigger need a window, require may be missing, and
\* require(m) throws when module m is not installed.
ProbeEnvs ==
  {e \in [window : BOOLEAN, windowGsap : BOOLEAN, windowST : BOOLEAN,
          require : BOOLEAN, gsapModule : BOOLEAN, stModule : BOOLEAN,
          stPlugin : BOOLEAN, element : {"absent", "plain", "animate"},
          io : BOOLEAN] :
     /\ e.windowGsap => e.window
     /\ e.windowST => e.window
     /\ e.stPlugin => (e.windowGsap \/ (e.require /\ e.gsapModule))
     /\ e.gsapModule => e.require
     /\ e.stModule => e.gsapModule}

\* What evaluating a piece of detection code does: raise, or yield a value
\* of the given truthiness.
Raise == [raises |-> TRUE, value |-> FALSE]
Yield(v) == [raises |-> FALSE, value |-> v]

\* typeof require === 'function' && require(m), with m installed or not.
Require(e, installed) ==
  IF ~e.require THEN Yield(FALSE)
  ELSE IF installed THEN Yield(TRUE)
  ELSE Raise

\* window.gsap || (typeof require === 'function' && require('gsap')).
GetGsap(e) ==
  IF ~e.window THEN Raise
  ELSE IF e.windowGsap THEN Yield(TRUE)
  ELSE Require(e, e.gsapModule)

\* The test functions of canUseGSAP, canUseWebAnimation, canUseScrollTrigger
\* and canUseIntersectionObserver.
GsapTest(e) ==
  IF ~e.window THEN Yield(FALSE)
  ELSE IF e.windowGsap THEN Yield(TRUE)
  ELSE Require(e, e.gsapModule)

WebAnimationTest(e) == Yield(e.element = "animate")

ScrollTriggerTest(e) ==
  LET gsap == GetGsap(e)
  IN IF gsap.raises THEN Raise
     ELSE IF ~gsap.value THEN Yield(FALSE)
     ELSE IF e.stPlugin \/ e.windowST THEN Yield(TRUE)
     ELSE Require(e, e.stModule)

IntersectionObserverTest(e) == Yield(e.io)

\* canUseFeature(testFn): try { return testFn() } catch { return false }.
canUseFeature_NoCatch(test) ==
  IF test.raises THEN [threw |-> TRUE, value |-> FALSE]
  ELSE [threw |-> FALSE, value |-> test.value]

canUseFeature(test) ==
  IF test.raises THEN [threw |-> FALSE, value |-> FALSE]
  ELSE [threw |-> FALSE, value |-> test.value]

\* One canUse... call: capability cap, test function test.
Probed(name, cap, test) ==
  LET r == canUseFeature(test)
  IN /\ pbProbe' = name
     /\ pbResult' = [c \in {cap} |-> r.value]
     /\ pbRaised' = IF test.raises THEN {cap} ELSE {}
     /\ pbThrew' = r.threw
     /\ UNCHANGED pbEnv
     /\ ProbeAlone

canUseGSAP == Probed("canUseGSAP", "gsap", GsapTest(pbEnv))

canUseWebAnimation == Probed("canUseWebAnimation", "web", WebAnimationTest(pbEnv))

canUseScrollTrigger ==
  Probed("canUseScrollTrigger", "scrollTrigger", ScrollTriggerTest(pbEnv))

canUseIntersectionObserver ==
  Probed("canUseIntersectionObserver", "io", IntersectionObserverTest(pbEnv))

\* The mount effect of useSafeAnimation: both detections, each in its own
\* try/catch, each setting its flag.
MountProbe ==
  LET gsap == GetGsap(pbEnv)
      web == WebAnimationTest(pbEnv)
  IN /\ pbProbe' = "mount"
     /\ pbResult' = [c \in {"gsap", "web"} |->
                       IF c = "gsap" THEN ProbeGsap(gsap.value, gsap.raises)
                       ELSE ProbeWeb(web.value, web.raises)]
     /\ pbRaised' = {c \in {"gsap", "web"} :
                       IF c = "gsap" THEN gsap.raises ELSE web.raises}
     /\ pbThrew' = FALSE
     /\ UNCHANGED pbEnv
     /\ ProbeAlone

InitProbe ==
  /\ InitHook
  /\ env = [gsap |-> FALSE, web |-> FALSE]
  /\ NoFadeIn
  /\ NoCss
  /\ NoTyping
  /\ NoMarquee
  /\ NoProvider
  /\ NoEasing
  /\ pbEnv \in ProbeEnvs
  /\ pbProbe = "none"
  /\ pbResult = [c \in {"none"} |-> FALSE]
  /\ pbRaised = {}
  /\ pbThrew = FALSE
  /\ NoButton
  /\ NoTransform
  /\ NoMagnetic
  /\ NoUseAnimation

NextProbe ==
  \/ canUseGSAP
  \/ canUseWebAnimation
  \/ canUseScrollTrigger
  \/ canUseIntersectionObserver
  \/ MountProbe

SpecProbe == InitProbe /\ [][NextProbe]_vars


\* -------------------------------------------------------------- AnimatedButton

ButtonEffects == {"ripple", "shine", "pulse", "scale", "fill", "unknown"}

ButtonTriggers == {"hover", "click", "none"}

\* animate({to: {..., onComplete}}) of the button's hook, the button being
\* mounted: the animation it creates joins anims with what its onComplete
\* is to do, "idle" (set isAnimating to false), "second" (start the return
\* animation) or "fill" (playFillEffect's choice between the two).
\* passed is the element the caller gives as second argument; animate has
\* one parameter, and every backend works on ref.current of the hook.
\* Only a constructor that runs can throw.
HookTarget == "button"

PassedTarget(effect) ==
  IF effect \in {"ripple", "shine"} THEN "effect" ELSE "button"

ButtonAnimate(anims, onDone, passed) ==
  \E gT \in BOOLEAN, wT \in BOOLEAN, cT \in BOOLEAN :
    LET r == animate(abFlags.gsap, abFlags.web, TRUE, "to", gT, wT, cT)
    IN /\ Threw(gT, wT, cT) \subseteq r.called
       /\ abAnims' = IF r.res = "anim"
                     THEN Append(anims, [backend |-> r.backend, onDone |-> onDone,
                                         passed |-> passed, target |-> HookTarget])
                     ELSE anims
       /\ abLast' = r.backend

\* What the first onComplete of each effect does.
FirstOnDone(effect) ==
  CASE effect \in {"ripple", "shine"} -> "idle"
    [] effect \in {"pulse", "scale"} -> "second"
    [] effect = "fill" -> "fill"

\* The hook's mount effect: the two probes.
ButtonMount ==
  /\ abPhase = "rendered"
  /\ abPhase' = "mounted"
  /\ \E gT \in BOOLEAN, wT \in BOOLEAN :
       abFlags' = [gsap |-> ProbeGsap(abEnv.gsap, gT),
                   web |-> ProbeWeb(abEnv.web, wT)]
  /\ UNCHANGED <<abProps, abEnv, abIsAnimating, abAnims, abPlays, abLast>>
  /\ ButtonAlone

\* playAnimation(e).  The effect element of ripple and shine exists from the
\* mount on, so playRippleEffect and playShineEffect reach animate.
playAnimation ==
  IF abProps.disabled \/ abIsAnimating
  THEN UNCHANGED <<abIsAnimating, abAnims, abPlays, abLast>>
  ELSE /\ abPlays' = IF abPlays < MaxPlays THEN abPlays + 1 ELSE abPlays
       /\ IF abProps.effect = "unknown"
          THEN UNCHANGED <<abIsAnimating, abAnims, abLast>>
          ELSE /\ abIsAnimating' = TRUE
               /\ ButtonAnimate(abAnims, FirstOnDone(abProps.effect),
                                PassedTarget(abProps.effect))

\* resetAnimation().
resetAnimation ==
  IF abProps.disabled \/ abProps.trigger # "hover"
  THEN UNCHANGED <<abIsAnimating, abAnims, abLast>>
  ELSE IF abProps.effect = "fill"
  THEN /\ ButtonAnimate(abAnims, "idle", "button")
       /\ UNCHANGED abIsAnimating
  ELSE /\ abIsAnimating' = FALSE
       /\ UNCHANGED <<abAnims, abLast>>

\* handleClick, handleMouseEnter, handleMouseLeave.
ButtonClick ==
  /\ abPhase = "mounted"
  /\ abProps.trigger = "click"
  /\ Len(abAnims) < MaxButtonAnims
  /\ playAnimation
  /\ UNCHANGED <<abProps, abEnv, abPhase, abFlags>>
  /\ ButtonAlone

ButtonMouseEnter ==
  /\ abPhase = "mounted"
  /\ abProps.trigger = "hover"
  /\ Len(abAnims) < MaxButtonAnims
  /\ playAnimation
  /\ UNCHANGED <<abProps, abEnv, abPhase, abFlags>>
  /\ ButtonAlone

ButtonMouseLeave ==
  /\ abPhase = "mounted"
  /\ abProps.trigger = "hover"
  /\ Len(abAnims) < MaxButtonAnims
  /\ resetAnimation
  /\ UNCHANGED <<abProps, abEnv, abPhase, abFlags, abPlays>>
  /\ ButtonAlone

Without(anims, i) == SubSeq(anims, 1, i - 1) \o SubSeq(anims, i + 1, Len(anims))

\* The onComplete of animation i is invoked.
ButtonOnComplete(i) ==
  LET rest == Without(abAnims, i)
      next == IF abAnims[i].onDone = "fill"
              THEN IF abProps.trigger # "hover" THEN "second" ELSE "idle"
              ELSE abAnims[i].onDone
  IN IF next = "idle"
     THEN /\ abIsAnimating' = FALSE
          /\ abAnims' = rest
          /\ UNCHANGED abLast
     ELSE /\ ButtonAnimate(rest, "idle", "button")
          /\ UNCHANGED abIsAnimating

\* A gsap.to tween ends: GSAP invokes the onComplete of its vars.
ButtonGsapEnd ==
  /\ \E i \in 1..Len(abAnims) :
       /\ abAnims[i].backend = "gsap"
       /\ ButtonOnComplete(i)
  /\ UNCHANGED <<abProps, abEnv, abPhase, abFlags, abPlays>>
  /\ ButtonAlone

\* The completion timer of a CSS handle fires: it calls props.to.onComplete.
ButtonCssTimeout ==
  /\ \E i \in 1..Len(abAnims) :
       /\ abAnims[i].backend = "css"
       /\ ButtonOnComplete(i)
  /\ UNCHANGED <<abProps, abEnv, abPhase, abFlags, abPlays>>
  /\ ButtonAlone

\* The Animation element.animate returned ends: createWebAnimation attached
\* nothing to it.
ButtonWebEnd ==
  /\ \E i \in 1..Len(abAnims) :
       /\ abAnims[i].backend = "web"
       /\ abAnims' = Without(abAnims, i)
  /\ UNCHANGED <<abProps, abEnv, abPhase, abFlags, abIsAnimating, abPlays,
                 abLast>>
  /\ ButtonAlone

InitButton ==
  /\ InitHook
  /\ env = [gsap |-> FALSE, web |-> FALSE]
  /\ NoFadeIn
  /\ NoCss
  /\ NoTyping
  /\ NoMarquee
  /\ NoProvider
  /\ NoEasing
  /\ NoProbe
  /\ abProps \in [effect : ButtonEffects, trigger : ButtonTriggers,
                  disabled : BOOLEAN]
  /\ abEnv \in [gsap : BOOLEAN, web : BOOLEAN]
  /\ abPhase = "rendered"
  /\ abFlags = [gsap |-> FALSE, web |-> FALSE]
  /\ abIsAnimating = FALSE
  /\ abAnims = <<>>
  /\ abPlays = 0
  /\ abLast = "none"
  /\ NoTransform
  /\ NoMagnetic
  /\ NoUseAnimation

NextButton ==
  \/ ButtonMount
  \/ ButtonClick
  \/ ButtonMouseEnter
  \/ ButtonMouseLeave
  \/ ButtonGsapEnd
  \/ ButtonCssTimeout
  \/ ButtonWebEnd

SpecButton == InitButton /\ [][NextButton]_vars

\* Started animations run to their end; the user owes the button no event.
SpecButtonFair ==
  /\ SpecButton
  /\ WF_vars(ButtonGsapEnd)
  /\ WF_vars(ButtonCssTimeout)
  /\ WF_vars(ButtonWebEnd)


\* ------------------------------------------------------------ transform strings

\* The transform properties of an intent, and intents as the sequence of
\* their transform properties in the order the object lists them.
TransformKeys == {"x", "y", "rotation", "scale"}

Intents ==
  {q \in UNION {[1..n -> TransformKeys] : n \in 0..MaxIntentKeys} :
     \A i \in 1..Len(q), j \in 1..Len(q) : i # j => q[i] # q[j]}

\* convertGSAPToWebAnimation: one if per property, in the order of the
\* source text.
WebTransform(intent) ==
  SelectSeq(<<"x", "y", "rotation", "scale">>,
            LAMBDA k : \E i \in 1..Len(intent) : intent[i] = k)

\* The forEach over Object.entries of createCSSAnimation: each transform
\* property appends its function to element.style.transform.
CssTransform(existing, intent, call) ==
  existing \o [i \in 1..Len(intent) |-> [key |-> intent[i], call |-> call]]

\* createWebAnimation({from} or {to}): the keyframe goes to element.animate,
\* the inline style is not written.
WebAnimate ==
  /\ tfCalls < MaxTransformCalls
  /\ \E intent \in Intents : tfKeyframe' = WebTransform(intent)
  /\ tfCalls' = tfCalls + 1
  /\ tfApplied' = 0
  /\ UNCHANGED <<tfTransform, tfPending>>
  /\ TransformAlone

\* createCSSAnimation: a 'from' intent is written at once; the 10 ms timer
\* is set.
CssAnimate ==
  /\ tfCalls < MaxTransformCalls
  /\ \E kind \in {"from", "to"}, intent \in Intents :
       /\ tfTransform' = IF kind = "from"
                         THEN CssTransform(tfTransform, intent, tfCalls + 1)
                         ELSE tfTransform
       /\ tfPending' = Append(tfPending,
                              [kind |-> kind, intent |-> intent, call |-> tfCalls + 1])
  /\ tfCalls' = tfCalls + 1
  /\ tfApplied' = 0
  /\ UNCHANGED tfKeyframe
  /\ TransformAlone

\* The 10 ms timer fires: the 'to' properties are written, or a 'from'
\* intent with a transform property resets the transform to ''.
CssApply ==
  /\ tfPending # <<>>
  /\ LET p == Head(tfPending)
     IN /\ tfTransform' = IF p.kind = "to"
                           THEN CssTransform(tfTransform, p.intent, p.call)
                           ELSE IF p.intent # <<>> THEN <<>> ELSE tfTransform
        /\ tfApplied' = IF p.kind = "to" THEN p.call ELSE 0
  /\ tfPending' = Tail(tfPending)
  /\ UNCHANGED <<tfKeyframe, tfCalls>>
  /\ TransformAlone

InitTransform ==
  /\ InitHook
  /\ env = [gsap |-> FALSE, web |-> FALSE]
  /\ NoFadeIn
  /\ NoCss
  /\ NoTyping
  /\ NoMarquee
  /\ NoProvider
  /\ NoEasing
  /\ NoProbe
  /\ NoButton
  /\ NoTransform
  /\ NoMagnetic
  /\ NoUseAnimation

NextTransform ==
  \/ WebAnimate
  \/ CssAnimate
  \/ CssApply

SpecTransform == InitTransform /\ [][NextTransform]_vars


\* ------------------------------------------------------------- MagneticElement

\* Offsets are whole multiples of 0.05 px; the two axes behave alike and one
\* is followed.
Offsets == (0 - MaxOffset)..MaxOffset

Abs(n) == IF n < 0 THEN 0 - n ELSE n

\* dx * damping, with damping = 1/2, to the unit below.
Damped(dx) == IF dx < 0 THEN 0 - ((0 - dx) \div 2) ELSE dx \div 2

\* animatePosition(): within 0.1 px of the target the element is set on it
\* and the loop ends, else it moves by the damped distance and requests the
\* next frame.
animatePosition(pos, target) ==
  IF Abs(target - pos) < SnapBelow
  THEN [pos |-> target, frame |-> FALSE]
  ELSE [pos |-> pos + Damped(target - pos), frame |-> TRUE]

\* handleMouseMove with the pointer inside the radius: the target follows the
\* pointer, and the loop is started unless a frame is requested.
MagneticMoveInside ==
  /\ \E t \in Offsets :
       /\ mgTarget' = t
       /\ IF mgFrame
          THEN UNCHANGED <<mgPos, mgFrame>>
          ELSE LET r == animatePosition(mgPos, t)
               IN /\ mgPos' = r.pos
                  /\ mgFrame' = r.frame
  /\ mgPointer' = "inside"
  /\ MagneticAlone

\* handleMouseMove with the pointer at the radius or beyond it.
MagneticMoveOutside ==
  /\ mgTarget' = 0
  /\ mgPointer' = "outside"
  /\ UNCHANGED <<mgPos, mgFrame>>
  /\ MagneticAlone

\* The requested animation frame arrives.
MagneticFrame ==
  /\ mgFrame
  /\ LET r == animatePosition(mgPos, mgTarget)
     IN /\ mgPos' = r.pos
        /\ mgFrame' = r.frame
  /\ UNCHANGED <<mgTarget, mgPointer>>
  /\ MagneticAlone

InitMagnetic ==
  /\ InitHook
  /\ env = [gsap |-> TRUE, web |-> TRUE]
  /\ NoFadeIn
  /\ NoCss
  /\ NoTyping
  /\ NoMarquee
  /\ NoProvider
  /\ NoEasing
  /\ NoProbe
  /\ NoButton
  /\ NoTransform
  /\ NoMagnetic
  /\ NoUseAnimation

NextMagnetic ==
  \/ MagneticMoveInside
  \/ MagneticMoveOutside
  \/ MagneticFrame

SpecMagnetic == InitMagnetic /\ [][NextMagnetic]_vars

\* The browser delivers every animation frame that was requested.
SpecMagneticFair == SpecMagnetic /\ WF_vars(MagneticFrame)


\* ---------------------------------------------------------------- useAnimation

\* props['data-animation-state'].
DataAnimationState(isAnimating, isComplete) ==
  IF isAnimating THEN "running"
  ELSE IF isComplete THEN "completed" ELSE "initial"

\* The durations a render may pass, in units of the default.
UseAnimationDurations == 1..MaxDurations

\* The effect with deps [isAnimating, duration, delay] after a render in
\* which isAnimating is now: when a dep has changed its cleanup clears the
\* completion timer, and with isAnimating true it sets a new one.
AnimatingEffect(changed, now, tms) ==
  IF ~changed THEN tms
  ELSE IF now THEN (tms \ {"complete"}) \cup {"complete"}
  ELSE tms \ {"complete"}

\* The effects of the first render: the 50 ms timer of 'auto', the observer
\* of 'visible'.
UseAnimationMount ==
  /\ uaPhase = "rendered"
  /\ uaPhase' = "mounted"
  /\ uaTimers' = IF uaTrigger = "auto" THEN {"auto"} ELSE {}
  /\ uaObserving' = (uaTrigger = "visible")
  /\ UNCHANGED <<uaTrigger, uaIsAnimating, uaIsComplete, uaIsVisible, uaCompletes, uaDuration>>
  /\ UseAnimationAlone

\* The 50 ms timer of the 'auto' trigger: setIsAnimating(true).
UseAnimationAuto ==
  /\ "auto" \in uaTimers
  /\ uaIsAnimating' = TRUE
  /\ uaTimers' = AnimatingEffect(~uaIsAnimating, TRUE, uaTimers \ {"auto"})
  /\ UNCHANGED <<uaTrigger, uaPhase, uaIsComplete, uaIsVisible, uaObserving,
                 uaCompletes, uaDuration>>
  /\ UseAnimationAlone

\* The observer reports the element intersecting: setIsVisible(true),
\* disconnect; the visibility effect then calls setIsAnimating(true).
UseAnimationVisible ==
  /\ uaObserving
  /\ uaObserving' = FALSE
  /\ uaIsVisible' = TRUE
  /\ uaIsAnimating' = TRUE
  /\ uaTimers' = AnimatingEffect(~uaIsAnimating, TRUE, uaTimers)
  /\ UNCHANGED <<uaTrigger, uaPhase, uaIsComplete, uaCompletes, uaDuration>>
  /\ UseAnimationAlone

\* play(): the onClick of 'click', the onMouseEnter of 'hover', or a call by
\* the component.
UseAnimationPlay ==
  /\ uaPhase = "mounted"
  /\ IF ~uaIsAnimating /\ ~uaIsComplete
     THEN /\ uaIsAnimating' = TRUE
          /\ uaTimers' = AnimatingEffect(~uaIsAnimating, TRUE, uaTimers)
     ELSE UNCHANGED <<uaIsAnimating, uaTimers>>
  /\ UNCHANGED <<uaTrigger, uaPhase, uaIsComplete, uaIsVisible, uaObserving,
                 uaCompletes, uaDuration>>
  /\ UseAnimationAlone

\* reset(): the onMouseLeave of 'hover', or a call by the component.
UseAnimationReset ==
  /\ uaPhase = "mounted"
  /\ uaIsAnimating' = FALSE
  /\ uaIsComplete' = FALSE
  /\ uaTimers' = AnimatingEffect(uaIsAnimating, FALSE, uaTimers)
  /\ UNCHANGED <<uaTrigger, uaPhase, uaIsVisible, uaObserving, uaCompletes, uaDuration>>
  /\ UseAnimationAlone

\* stop().
UseAnimationStop ==
  /\ uaPhase = "mounted"
  /\ uaIsAnimating
  /\ uaIsAnimating' = FALSE
  /\ uaTimers' = AnimatingEffect(uaIsAnimating, FALSE, uaTimers)
  /\ UNCHANGED <<uaTrigger, uaPhase, uaIsComplete, uaIsVisible, uaObserving,
                 uaCompletes, uaDuration>>
  /\ UseAnimationAlone

\* The completion timer fires: setIsComplete(true), onComplete().
UseAnimationComplete ==
  /\ "complete" \in uaTimers
  /\ uaTimers' = uaTimers \ {"complete"}
  /\ uaIsComplete' = TRUE
  /\ uaCompletes' = IF uaCompletes < MaxCompletes THEN uaCompletes + 1
                    ELSE uaCompletes
  /\ UNCHANGED <<uaTrigger, uaPhase, uaIsAnimating, uaIsVisible, uaObserving,
                 uaDuration>>
  /\ UseAnimationAlone

\* The component renders again with another duration: the effect runs
\* again.
UseAnimationRerender ==
  /\ uaPhase = "mounted"
  /\ \E dur \in UseAnimationDurations \ {uaDuration} : uaDuration' = dur
  /\ uaTimers' = AnimatingEffect(TRUE, uaIsAnimating, uaTimers)
  /\ UNCHANGED <<uaTrigger, uaPhase, uaIsAnimating, uaIsComplete, uaIsVisible,
                 uaObserving, uaCompletes>>
  /\ UseAnimationAlone

\* The component unmounts: every effect's cleanup runs.
UseAnimationUnmount ==
  /\ uaPhase = "mounted"
  /\ uaPhase' = "unmounted"
  /\ uaTimers' = {}
  /\ uaObserving' = FALSE
  /\ UNCHANGED <<uaTrigger, uaIsAnimating, uaIsComplete, uaIsVisible,
                 uaCompletes, uaDuration>>
  /\ UseAnimationAlone

InitUseAnimation ==
  /\ InitHook
  /\ env = [gsap |-> FALSE, web |-> FALSE]
  /\ NoFadeIn
  /\ NoCss
  /\ NoTyping
  /\ NoMarquee
  /\ NoProvider
  /\ NoEasing
  /\ NoProbe
  /\ NoButton
  /\ NoTransform
  /\ NoMagnetic
  /\ uaTrigger \in {"auto", "visible", "click", "hover", "none"}
  /\ uaPhase = "rendered"
  /\ uaIsAnimating = FALSE
  /\ uaIsComplete = FALSE
  /\ uaIsVisible = FALSE
  /\ uaObserving = FALSE
  /\ uaTimers = {}
  /\ uaCompletes = 0
  /\ uaDuration \in UseAnimationDurations

NextUseAnimation ==
  \/ UseAnimationMount
  \/ UseAnimationAuto
  \/ UseAnimationVisible
  \/ UseAnimationPlay
  \/ UseAnimationReset
  \/ UseAnimationStop
  \/ UseAnimationComplete
  \/ UseAnimationRerender
  \/ UseAnimationUnmount

SpecUseAnimation == InitUseAnimation /\ [][NextUseAnimation]_vars


\* ------------------------------------------------------------------- claims

Flag(b) ==
  CASE b = "gsap" -> lastCall.flagG
    [] b = "web" -> lastCall.flagW
    [] OTHER -> TRUE

Higher(b) ==
  CASE b = "css" -> {"gsap", "web"}
    [] b = "web" -> {"gsap"}
    [] OTHER -> {}

\* C1: animate resolves by strict priority GSAP -> Web Animations -> CSS.
\* The handle comes from the highest-priority backend whose capability flag
\* (as the call reads it) is true and whose helper did not return null; no
\* helper or constructor of a backend whose flag is false is ever invoked;
\* and where the page has no GSAP, no GSAP animation is ever constructed.
C1_StrictPriority ==
  /\ \A b \in lastCall.tried \cup lastCall.called : Flag(b)
  /\ lastCall.res = "anim" =>
       /\ lastCall.backend \in Backends
       /\ Flag(lastCall.backend)
       /\ lastCall.backend \notin lastCall.nulls
       /\ \A b \in Higher(lastCall.backend) : ~Flag(b) \/ b \in lastCall.nulls
       /\ handles[lastCall.h].backend = lastCall.backend
  /\ (lastCall.isCall /\ lastCall.res = "null") =>
       \A b \in Backends : Flag(b) => b \in lastCall.nulls
  /\ ~env.gsap =>
       /\ "gsap" \notin lastCall.called
       /\ \A h \in HandleIds : handles[h].backend # "gsap"

\* C1 witness: GSAP is not available, Web Animations is, and animate has
\* just returned a Web Animations handle.
C1_Witness ==
  /\ lastCall.res = "anim"
  /\ lastCall.backend = "web"
  /\ ~lastCall.flagG
  /\ ~env.gsap

\* C7: an exception thrown while a backend constructs the animation never
\* leaves animate; the helper that threw counts as failed and the next
\* backend down the chain is tried (GSAP -> Web Animations when its flag is
\* true -> CSS).
C7_ThrowFallsThrough ==
  /\ lastCall.res # "throw"
  /\ lastCall.threw \subseteq lastCall.nulls
  /\ "gsap" \in lastCall.threw =>
       IF lastCall.flagW THEN "web" \in lastCall.tried ELSE "css" \in lastCall.tried
  /\ "web" \in lastCall.threw => "css" \in lastCall.tried
  /\ (lastCall.threw # {} /\ "css" \notin lastCall.nulls) => lastCall.res = "anim"

\* C7 witness: the GSAP constructor threw and animate returned a Web
\* Animations handle.
C7_Witness ==
  /\ lastCall.threw = {"gsap"}
  /\ lastCall.res = "anim"
  /\ lastCall.backend = "web"

\* C8 (as claimed): when every backend fails for a mounted element, CSS
\* included, animate does not throw, leaves the target in the intent's final
\* state and invokes the completion callback.
C8_AllFailJumpsToFinal ==
  (lastCall.isCall /\ lastCall.refOk /\ lastCall.res # "anim"
     /\ "css" \in lastCall.nulls) =>
    /\ lastCall.res = "null"
    /\ lastCall.atFinal
    /\ lastCall.cbs = 1

\* C2 (as claimed): an animation that runs to its natural end has had the
\* onComplete of its intent invoked exactly once, whatever the backend.
C2_CompleteOncePerBackend ==
  \A h \in HandleIds :
    (handles[h].cb # "none" /\ handles[h].status = "finished") => handles[h].done = 1

\* C5 (as claimed): once the component is unmounted no animation it started
\* is still running and no completion timer of the fallback is pending.
C5_UnmountKillsAll ==
  phase = "unmounted" => /\ \A h \in HandleIds : ~Running(h)
                         /\ \A t \in timers : t.kind # "complete"

\* C10 (as claimed): for an intent of duration 0 and delay 0, onComplete fires
\* once, the style is at the intent's target when it fires, and no timer of
\* the animation is pending afterwards.
C10_ZeroDuration ==
  \A h \in HandleIds :
    (handles[h].ms = 0 /\ handles[h].done > 0) =>
      /\ handles[h].done = 1
      /\ handles[h].styleOk
      /\ \A t \in timers : t.h # h

\* C4 (as claimed): at most one animation handle is in flight on the element
\* at any time.
C4_OneInFlight ==
  Cardinality({h \in HandleIds : Running(h)}) <= 1

\* C6 (as claimed): a playAnimation call made while disableAllAnimations is
\* true creates no animation, leaves the element in the final (natural)
\* state and invokes the onComplete prop.
C6_DisabledCompletes ==
  (lastPlay.isCall /\ lastPlay.disabled) =>
    /\ ~lastPlay.created
    /\ style.val = "natural"
    /\ lastPlay.cbs = 1

\* C3 (as claimed): once kill() has been called on a handle before its
\* animation completed, the handle's onComplete is never invoked; and no
\* handle has its onComplete invoked twice.
C3_KillPreventsComplete ==
  \A a \in 1..Len(cssApps) :
    /\ cssApps[a].late = 0
    /\ cssApps[a].done <= 1

\* C9 (as claimed): with the scroll trigger the animation has not started
\* unless the element has been reported entering the viewport.
C9_StartsAfterIntersection ==
  (ttProps.trigger = "scroll" /\ ttStarted) => ttEntered

\* C11 (as claimed): after Marquee unmounts, its repeating tweens are all
\* killed and no listener it registered (window resize, container
\* mouseenter/mouseleave) is still registered.
C11_UnmountLeavesNothing ==
  mqPhase = "unmounted" =>
    /\ \A i \in 1..Len(mqTweens) : mqTweens[i] = "killed"
    /\ mqResize = 0
    /\ mqHover = 0

\* C12: updateSettings is a shallow merge applied in call order.  Applying
\* an update gives every field it names the update's value and leaves every
\* other field as it was; and once every queued update has been applied,
\* each field holds the value of the last call that named it.
C12_ShallowMergeInOrder ==
  /\ apLastApplied.src # "none" =>
       \A f \in Fields :
         apSettings[f] = IF f \in DOMAIN apLastApplied.patch
                         THEN apLastApplied.patch[f]
                         ELSE apLastApplied.before[f]
  /\ (apPhase = "mounted" /\ apQueue = <<>>) =>
       \A f \in Fields : apSettings[f] = apLastWrite[f]

\* C12 witness: the application, the motion query and the battery have each
\* had an update applied: the battery's came last, and the fields of the
\* other two are as their last calls left them.
C12_Witness ==
  /\ apPhase = "mounted"
  /\ apQueue = <<>>
  /\ apLastApplied.src = "battery"
  /\ apSettings.animationQuality = "low"
  /\ apMatches
  /\ ~apSettings.disableAllAnimations
  /\ apSettings.disableScrollAnimations

\* C13: when the update made for a matching prefers-reduced-motion query has
\* been applied, disableAllAnimations and disableScrollAnimations are both
\* true.
C13_ReducedMotionDisables ==
  (apLastApplied.src = "motion"
     /\ apLastApplied.patch["disableAllAnimations"]) =>
    /\ apSettings.disableAllAnimations
    /\ apSettings.disableScrollAnimations

\* C13 witness: the update made for a matching query has been applied and
\* has switched both flags from false to true.
C13_Witness ==
  /\ apLastApplied.src = "motion"
  /\ apLastApplied.patch["disableAllAnimations"]
  /\ ~apLastApplied.before.disableAllAnimations
  /\ ~apLastApplied.before.disableScrollAnimations
  /\ apSettings.disableAllAnimations
  /\ apSettings.disableScrollAnimations

\* C14 (as claimed): FadeIn never calls animate while disableAllAnimations
\* is true.
C14_DisabledNeverStarts ==
  lastCall.isCall => ~disableAllAnimations

\* C15 (as claimed): while disableScrollAnimations is true and the trigger is
\* 'scroll', no intersection observer of FadeIn is live to start the
\* animation: the observer's callback starts none.
C15_NoScrollTriggerWhenDisabled ==
  (trigger = "scroll" /\ disableScrollAnimations) =>
    ~(lastPlay.by = "observer" /\ lastPlay.created)

\* C16 (as claimed): for each animation FadeIn starts, the onStart prop is
\* invoked exactly once, and the onComplete prop exactly once when the
\* animation has completed.
C16_StartAndCompleteOnce ==
  \A h \in HandleIds :
    handles[h].cb = "fadein" =>
      /\ handles[h].starts = 1
      /\ handles[h].status = "finished" => handles[h].done = 1

\* C17: after any number of calls of injectCSSKeyframes, from applyCssAnimation
\* or from a component's mount effect, the document holds exactly one style
\* element with id 'react-gsap-keyframes', and none before the first call.
C17_OneStyleElement ==
  /\ cssInjects = 0 => cssKeyframes = 0
  /\ (cssDocument /\ cssInjects > 0) => cssKeyframes = 1

C17_Witness ==
  /\ cssDocument
  /\ cssInjects > Len(cssApps)
  /\ Len(cssApps) > 0
  /\ cssKeyframes = 1

\* C18: mapEasing and either convertEase return the table's value for a name
\* of their table and 'ease-out' for every other name, and do not throw.
\* An absent argument is no name.
C18_UnknownEaseIsEaseOut ==
  (easeFn # "none" /\ easeName # JsUndefined) =>
    easeResult = IF easeName \in DOMAIN EaseTable(easeFn)
                 THEN EaseTable(easeFn)[easeName]
                 ELSE "ease-out"

\* C19: no capability probe lets an exception escape, and a capability
\* whose detection code raised is reported as unavailable.
C19_ProbesNeverThrow ==
  pbProbe # "none" =>
    /\ ~pbThrew
    /\ \A c \in pbRaised : pbResult[c] = FALSE

C19_Witness ==
  /\ pbProbe = "canUseScrollTrigger"
  /\ pbRaised = {"scrollTrigger"}
  /\ ~pbThrew
  /\ pbResult["scrollTrigger"] = FALSE

\* C20: whenever the button is in the 'running' state, isAnimating returns
\* to false later on, with no user event needed, for every effect and every
\* backend, provided the animations that were started run to their end.
\* A run whose animate() call created no animation is none of the claim's.
C20_RunningEnds ==
  (abIsAnimating /\ abLast # "none") ~> (~abIsAnimating \/ abLast = "none")

\* C21: once kill() has been called on a CSS-fallback handle, no timer of
\* that handle is pending any more, neither the completion timer nor the
\* deferred application of the target state, so nothing of it can still
\* write the element's style.
C21_KillLeavesNoTimer ==
  \A h \in HandleIds :
    (handles[h].backend = "css" /\ handles[h].status = "killed") =>
      \A t \in timers : t.h # h

\* C22: an animation requested as animate(intent, target) runs on the target
\* the caller passed; for AnimatedButton's ripple and shine that is the
\* effect element.
C22_AppliedToPassedTarget ==
  \A i \in 1..Len(abAnims) : abAnims[i].target = abAnims[i].passed

\* C23: under the CSS fallback the completion timer of an intent is set to
\* the duration plus the delay the caller supplied with it; FadeIn supplies
\* its duration and delay props inside the 'from' bag.
C23_TimerUsesSuppliedTiming ==
  \A h \in HandleIds :
    (handles[h].backend = "css" /\ handles[h].cb = "fadein") =>
      handles[h].ms = FadeInDurationMs + FadeInDelayMs

\* C24: the transform functions one intent contributes, in the keyframe of
\* the Web Animations backend and in the inline style under the CSS
\* fallback, stand in the order translate, rotate, scale, whatever the order
\* of the properties in the intent.
Rank(key) ==
  CASE key \in {"x", "y"} -> 1
    [] key = "rotation" -> 2
    [] key = "scale" -> 3

C24_FixedTransformOrder ==
  /\ \A i \in 1..Len(tfKeyframe), j \in 1..Len(tfKeyframe) :
       i < j => Rank(tfKeyframe[i]) <= Rank(tfKeyframe[j])
  /\ \A i \in 1..Len(tfTransform), j \in 1..Len(tfTransform) :
       (i < j /\ tfTransform[i].call = tfTransform[j].call) =>
         Rank(tfTransform[i].key) <= Rank(tfTransform[j].key)

\* C28: when the CSS fallback has applied a 'to' intent, the inline transform
\* holds the functions of that intent only.
C28_TransformNotAccumulated ==
  tfApplied # 0 =>
    \A i \in 1..Len(tfTransform) : tfTransform[i].call = tfApplied

\* C25: with a finite loop count and the component staying mounted, the
\* typing sequence ends: the texts are typed one after the other in order,
\* textArray.length x (loop + 1) of them, then onComplete is invoked, once,
\* and no delayed call is left.
C25_TypingTerminates ==
  /\ [](ttCompletes <= 1 /\ (ttCompletes = 1 => ~ttPending.set))
  /\ [][ttCompletes' # ttCompletes =>
          /\ ttPending.set
          /\ ttPending.index + 1 = Len(ttProps.texts) * (ttProps.loop.n + 1)]_vars
  /\ [][(ttPending.set /\ ttPending'.set /\ ~ttProps.loop.inf) =>
          \/ ttPending'.index = ttPending.index
          \/ /\ ttPending'.index = ttPending.index + 1
             /\ ttPending'.charIndex = 0
             /\ ~ttPending'.isDeleting]_vars
  /\ (ttPending.set /\ ttPhase = "mounted" /\ ~ttProps.loop.inf)
       ~> (ttCompletes = 1 \/ ttPhase # "mounted")

C25_Witness ==
  /\ ttCompletes = 1
  /\ ttPhase = "mounted"
  /\ Len(ttProps.texts) = MaxTexts
  /\ ttProps.loop.n = MaxLoop

\* C26: the animation FadeIn starts by itself, from the 'load' timer or from
\* the observer of the 'scroll' trigger, is resolved with the capability
\* flags the mount-time probe has set.
C26_AutoPlayUsesProbedFlags ==
  (lastPlay.by \in {"observer", "timer"} /\ lastCall.isCall) =>
    /\ lastCall.flagG = isGsapAvailable
    /\ lastCall.flagW = isWebAnimationAvailable

\* C27: with the hover trigger, once resetAnimation has put the state back
\* to {hasAnimated: false, isAnimating: false} it stays there until a
\* playAnimation call: no onComplete of an earlier animation changes it.
C27_ResetStaysInitial ==
  [][(/\ trigger = "hover"
      /\ userStarts > 0
      /\ animationState = [hasAnimated |-> FALSE, isAnimating |-> FALSE]
      /\ animationState' # animationState)
     => lastPlay'.isCall]_vars

\* C29: whenever the pointer is outside the radius, the element's offset
\* becomes 0 unless the pointer comes back inside, whether or not the
\* animation loop was running when the pointer left.
C29_SettlesBack ==
  (mgPointer = "outside") ~> (mgPos = 0 \/ mgPointer = "inside")

\* C30: once the completion timer of useAnimation has fired and until
\* reset() is called, isAnimating is false and 'data-animation-state' is
\* 'completed'.  isComplete is true exactly from the one to the other.
C30_CompletedAfterTimer ==
  uaIsComplete =>
    /\ ~uaIsAnimating
    /\ DataAnimationState(uaIsAnimating, uaIsComplete) = "completed"

====
